---- MODULE Spec2Model ----
(***************************************************************************)
(* Model of the RAG core of edge-ai-infra:                                 *)
(*   - gateway/services/rag/vector_store.py  (VectorStore.upsert/search)   *)
(*   - gateway/services/rag/retriever.py     (Retriever.retrieve)          *)
(*   - gateway/services/rag/rag_service.py   (RAGService.query)            *)
(*   - gateway/services/rag/chunker.py       (HierarchicalDocChunker)      *)
(*   - gateway/services/rag/query_rewriter.py (rewrite_query and           *)
(*                                             rewrite_for_logging)        *)
(*   - gateway/cli/ingest_cli.py             (main: chunk, embed, upsert)  *)
(*   - gateway/services/vllm_client.py       (send_chat_request)           *)
(*   - gateway/routes/chat.py                (chat_completions)            *)
(*   - gateway/metrics/metrics.py            (the Prometheus metrics)      *)
(*                                                                         *)
(* Five specifications share the module: Spec (retrieval over the vector   *)
(* index), ChunkSpec (one ingestion pass of the chunk splitter),           *)
(* RewriteSpec (calls of the query rewriter), ConcSpec (retrieve calls     *)
(* running at the same time) and GatewaySpec (chat-completion requests     *)
(* running at the same time).                                              *)
(***************************************************************************)
EXTENDS Integers, Sequences, FiniteSets, TLC

VARIABLES
    \* ---- retrieval side ------------------------------------------------
    index,               \* Qdrant collection: sequence of points [id, payload]
    nextId,              \* stands for the fresh uuid4 of the next point
    top_k,               \* Retriever.top_k
    use_parent_context,  \* Retriever.use_parent_context
    pc,                  \* position of the in-flight retrieve / query call
    caller,              \* "retrieve" (direct call) or "query" (RAGService.query)
    arg_doc,             \* the document_id argument of the call
    results,             \* what VectorStore.search returned to retrieve
    ret,                 \* outcome of Retriever.retrieve: [kind, value]
    answer,              \* outcome of RAGService.query: [kind, answer, citations]
    prompts,             \* number of prompts assembled by build_prompt
    llm_calls,           \* number of POSTs made to the inference gateway
    \* ---- chunk splitter side -------------------------------------------
    config,              \* HierarchicalChunkConfig fields
    cpc,                 \* position inside the constructor / chunk_pdf
    yielded,             \* sections the hierarchical chunker has yielded so far
    raw,                 \* loop variable raw of _build_parents (last section)
    parents,             \* list built by _build_parents
    children,            \* list built by _build_children
    child_index,         \* local child_index of _build_children
    pi,                  \* position in parents of the parent being split
    words,               \* local words of _token_split
    start,               \* local start of _token_split
    chunks,              \* local chunks of _token_split
    uuid,                \* stands for the next value of uuid.uuid4()
    conv_status,         \* result.status of the converter in chunk_pdf
    chunk_embeddings,    \* what embed_chunks returned to the ingestion CLI
    \* ---- query rewriter side -------------------------------------------
    FINANCIAL_EXPANSIONS, \* module-level dict of query_rewriter
    LEGAL_EXPANSIONS,    \* module-level dict of query_rewriter
    rw_query,            \* the query whose rewriting is followed
    calls,               \* the rewriter calls made so far, with their results
    \* ---- concurrent retrieve calls -------------------------------------
    rcalls,              \* per call of retrieve: its position and its locals
    \* ---- chat-completion gateway ---------------------------------------
    greqs,               \* per request of chat_completions: position and locals
    ACTIVE_REQUESTS,     \* value of the gauge chat_active_requests
    CHAT_REQUESTS_TOTAL  \* chat_requests_total, one value per status label

rvars == <<index, nextId, top_k, use_parent_context, pc, caller, arg_doc,
           results, ret, answer, prompts, llm_calls>>
cvars == <<config, cpc, yielded, raw, parents, children, child_index, pi,
           words, start, chunks, uuid, conv_status, chunk_embeddings>>
qvars == <<FINANCIAL_EXPANSIONS, LEGAL_EXPANSIONS, rw_query, calls>>
kvars == <<rcalls>>
gvars == <<greqs, ACTIVE_REQUESTS, CHAT_REQUESTS_TOTAL>>
vars == <<rvars, cvars, qvars, kvars, gvars>>

-----------------------------------------------------------------------------
(* Bounds of the model.                                                    *)
MaxIndex == 2        \* points in the collection
MaxBatch == 2        \* (chunk, vector) pairs in one upsert call
MaxTopK == 2         \* largest top_k a Retriever is constructed with
MaxCmt == 4          \* largest child_max_tokens of the small configurations
OverlapCmt == 10     \* a child_max_tokens whose window has a non-zero overlap
MaxMin == 3          \* largest min_chunk_words
MaxSections == 2     \* sections the hierarchical chunker yields
MaxSectionWords == 4 \* words in a short section
LongSectionWords == 8 \* words in the long section
TailSectionWords == 13 \* words in the section two strides and one word long
MaxIter == 2         \* passes of a _token_split loop followed beyond one per word
MaxFragments == 2    \* fragments a followed query is put together from
MaxCalls == 3        \* rewriter calls followed in one run
MaxRetrievers == 2   \* retrieve calls running at the same time
MaxConcIndex == 4    \* points in the collection the concurrent calls read
MaxRequests == 2     \* chat-completion requests running at the same time

\* Python None (also what dict.get returns for a missing key).
NoneVal == "None"

\* Python truthiness of an optional string: None and "" are falsy.
Truthy(v) == v # NoneVal /\ v # ""

Min(a, b) == IF a <= b THEN a ELSE b

-----------------------------------------------------------------------------
(* Query rewriter (gateway/services/rag/query_rewriter.py).                *)
(* A string is a sequence of one-character strings.  An expansion phrase   *)
(* is kept as one item, so a rewritten query is the characters of the      *)
(* query followed by "\n" and the phrases with " " between them.           *)

\* A dict as the sequence of its items in insertion order.
FinancialTable ==
    << [term |-> <<"r", "e", "v", "e", "n", "u", "e">>,
        expansion |-> "revenue total revenues consolidated statements of operations"],
       [term |-> <<"p", "r", "o", "f", "i", "t">>,
        expansion |-> "net income loss profit earnings consolidated statements"],
       [term |-> <<"l", "o", "s", "s">>,
        expansion |-> "net income loss earnings consolidated statements of operations"],
       [term |-> <<"e", "a", "r", "n", "i", "n", "g", "s">>,
        expansion |-> "net income loss earnings per share EPS diluted"],
       [term |-> <<"s", "a", "l", "e", "s">>,
        expansion |-> "revenue total revenues net sales"],
       [term |-> <<"c", "o", "s", "t", "s">>,
        expansion |-> "costs expenses operating expenses cost of revenue"],
       [term |-> <<"e", "x", "p", "e", "n", "s", "e", "s">>,
        expansion |-> "operating expenses costs cost of revenue selling general administrative"],
       [term |-> <<"c", "a", "s", "h">>,
        expansion |-> "cash equivalents liquidity cash flows operations"],
       [term |-> <<"d", "e", "b", "t">>,
        expansion |-> "long-term debt borrowings credit facility notes payable"],
       [term |-> <<"a", "s", "s", "e", "t", "s">>,
        expansion |-> "total assets consolidated balance sheet"],
       [term |-> <<"l", "i", "a", "b", "i", "l", "i", "t", "i", "e", "s">>,
        expansion |-> "total liabilities consolidated balance sheet"],
       [term |-> <<"e", "m", "p", "l", "o", "y", "e", "e", "s">>,
        expansion |-> "headcount full-time employees workforce"],
       [term |-> <<"g", "r", "o", "w", "t", "h">>,
        expansion |-> "increase decrease year over year percentage change"],
       [term |-> <<"r", "i", "s", "k">>,
        expansion |-> "risk factors uncertainties forward-looking statements"],
       [term |-> <<"s", "e", "g", "m", "e", "n", "t">>,
        expansion |-> "segment revenue operating income business segment results"],
       [term |-> <<"t", "a", "x">>,
        expansion |-> "income tax provision benefit effective tax rate"],
       [term |-> <<"s", "h", "a", "r", "e", "s">>,
        expansion |-> "common stock shares outstanding diluted weighted average"],
       [term |-> <<"d", "i", "v", "i", "d", "e", "n", "d">>,
        expansion |-> "dividends distributions stockholders equity"],
       [term |-> <<"a", "c", "q", "u", "i", "s", "i", "t", "i", "o", "n">>,
        expansion |-> "business combinations acquisitions purchase price allocation"],
       [term |-> <<"g", "u", "i", "d", "a", "n", "c", "e">>,
        expansion |-> "outlook forward-looking statements expectations"] >>

LegalTable ==
    << [term |-> <<"t", "e", "r", "m", "i", "n", "a", "t", "e">>,
        expansion |-> "termination clause notice period right to terminate"],
       [term |-> <<"t", "e", "r", "m", "i", "n", "a", "t", "i", "o", "n">>,
        expansion |-> "termination clause notice period written notice"],
       [term |-> <<"n", "o", "t", "i", "c", "e">>,
        expansion |-> "notice period written notice days termination"],
       [term |-> <<"r", "e", "n", "t">>,
        expansion |-> "monthly rent payment due date rental amount"],
       [term |-> <<"d", "e", "p", "o", "s", "i", "t">>,
        expansion |-> "security deposit return conditions deductions"],
       [term |-> <<"r", "e", "p", "a", "i", "r">>,
        expansion |-> "maintenance repair responsibility landlord tenant"],
       [term |-> <<"l", "a", "t", "e">>,
        expansion |-> "late fee penalty grace period overdue payment"],
       [term |-> <<"l", "e", "a", "s", "e">>,
        expansion |-> "lease agreement term commencement expiration"],
       [term |-> <<"l", "i", "a", "b", "i", "l", "i", "t", "y">>,
        expansion |-> "indemnification liability limitation damages"],
       [term |-> <<"b", "r", "e", "a", "c", "h">>,
        expansion |-> "breach default cure period remedies"] >>

UpperCase == <<"A", "B", "C", "D", "E", "F", "G", "H", "I", "J", "K", "L", "M",
               "N", "O", "P", "Q", "R", "S", "T", "U", "V", "W", "X", "Y", "Z">>
LowerCase == <<"a", "b", "c", "d", "e", "f", "g", "h", "i", "j", "k", "l", "m",
               "n", "o", "p", "q", "r", "s", "t", "u", "v", "w", "x", "y", "z">>

\* str.lower() of one character and of a string.
ToLower ==
    [c \in { UpperCase[i] : i \in 1..Len(UpperCase) } |->
        LowerCase[CHOOSE i \in 1..Len(UpperCase) : UpperCase[i] = c]]

LowerChar(c) == IF c \in DOMAIN ToLower THEN ToLower[c] ELSE c

Lower(str) == [i \in 1..Len(str) |-> LowerChar(str[i])]

\* term in text
Contains(text, term) ==
    \E i \in 0..(Len(text) - Len(term)) : SubSeq(text, i + 1, i + Len(term)) = term

\* " ".join(items)
RECURSIVE JoinWithSpace(_)
JoinWithSpace(items) ==
    IF items = <<>> THEN <<>>
    ELSE IF Len(items) = 1 THEN items
    ELSE <<items[1], " ">> \o JoinWithSpace(Tail(items))

\* The position of a key among the items of a dict, 0 when it is missing.
KeyIndex(d, key) ==
    IF \E i \in 1..Len(d) : d[i].term = key
    THEN CHOOSE i \in 1..Len(d) : d[i].term = key
    ELSE 0

\* {**a, **b}: the items of a in their order, a key of b that a has keeps
\* a's position and takes b's value, the other items of b follow in b's
\* order.
RECURSIVE MergeDicts(_, _)
MergeDicts(a, b) ==
    IF b = <<>> THEN a
    ELSE LET k == KeyIndex(a, b[1].term)
         IN  MergeDicts(IF k = 0 THEN Append(a, b[1]) ELSE [a EXCEPT ![k] = b[1]],
                        Tail(b))

\* rewrite_query: the loop over the merged items collecting expansions.
RECURSIVE RewriteQueryLoop(_, _, _, _)
RewriteQueryLoop(items, i, query_lower, expansions) ==
    IF i > Len(items) THEN expansions
    ELSE RewriteQueryLoop(items, i + 1, query_lower,
                          IF Contains(query_lower, items[i].term)
                          THEN Append(expansions, items[i].expansion)
                          ELSE expansions)

\* Variant: the terms are looked for in the query as typed.
RewriteQueryCaseSensitive(query, financial, legal) ==
    LET expansions == RewriteQueryLoop(MergeDicts(financial, legal), 1, query, <<>>)
    IN  IF expansions = <<>> THEN query
        ELSE query \o <<"\n">> \o JoinWithSpace(expansions)

\* rewrite_query(query) with the module's two dicts as they are now.
RewriteQuery(query, financial, legal) ==
    LET query_lower == Lower(query)
        expansions  == RewriteQueryLoop(MergeDicts(financial, legal), 1,
                                        query_lower, <<>>)
    IN  IF expansions = <<>> THEN query
        ELSE query \o <<"\n">> \o JoinWithSpace(expansions)

\* rewrite_for_logging: the loop collecting matched terms and expansions.
RECURSIVE RewriteForLoggingLoop(_, _, _, _)
RewriteForLoggingLoop(items, i, query_lower, acc) ==
    IF i > Len(items) THEN acc
    ELSE RewriteForLoggingLoop(items, i + 1, query_lower,
             IF Contains(query_lower, items[i].term)
             THEN [matched    |-> Append(acc.matched, items[i].term),
                   expansions |-> Append(acc.expansions, items[i].expansion)]
             ELSE acc)

\* Variant: the early return for a query without a term is missing.
RewriteForLoggingNoEarlyReturn(query, financial, legal) ==
    LET query_lower == Lower(query)
        acc == RewriteForLoggingLoop(MergeDicts(financial, legal), 1, query_lower,
                                     [matched |-> <<>>, expansions |-> <<>>])
    IN  [expanded |-> query \o <<"\n">> \o JoinWithSpace(acc.expansions),
         matched  |-> acc.matched]

\* Variant: only the financial terms are looked for.
RewriteForLoggingFinancialOnly(query, financial, legal) ==
    LET query_lower == Lower(query)
        acc == RewriteForLoggingLoop(financial, 1, query_lower,
                                     [matched |-> <<>>, expansions |-> <<>>])
    IN  IF acc.expansions = <<>>
        THEN [expanded |-> query, matched |-> <<>>]
        ELSE [expanded |-> query \o <<"\n">> \o JoinWithSpace(acc.expansions),
              matched  |-> acc.matched]

\* rewrite_for_logging(query): the pair (expanded_query, matched_terms).
RewriteForLogging(query, financial, legal) ==
    LET query_lower == Lower(query)
        acc == RewriteForLoggingLoop(MergeDicts(financial, legal), 1, query_lower,
                                     [matched |-> <<>>, expansions |-> <<>>])
    IN  IF acc.expansions = <<>>
        THEN [expanded |-> query, matched |-> <<>>]
        ELSE [expanded |-> query \o <<"\n">> \o JoinWithSpace(acc.expansions),
              matched  |-> acc.matched]

\* The rewriter's side while the other specifications run: the two dicts as
\* the module defines them, no call made.
RewriteIdle ==
    /\ FINANCIAL_EXPANSIONS = FinancialTable
    /\ LEGAL_EXPANSIONS = LegalTable
    /\ rw_query = <<>>
    /\ calls = <<>>

\* No concurrent retrieve call is followed.
ConcIdle == rcalls = <<>>

\* The gateway is left out of the other specifications.
GatewayIdle ==
    /\ greqs = <<>>
    /\ ACTIVE_REQUESTS = 0
    /\ CHAT_REQUESTS_TOTAL = [success |-> 0, error |-> 0]

-----------------------------------------------------------------------------
(* Vector index contents.                                                  *)

DocIds == {"d1", "d2"}
ParentIds == {"p1", "p2"}
Texts == {"ta", "tb"}

\* The parent text the chunker copies into every child of one parent.
ParentTextOf(pid) == IF pid = NoneVal THEN NoneVal ELSE "PARENT-" \o pid

\* parent_id = f"{doc_id}_parent_{uuid}": a parent belongs to one document.
DocOfParent(pid) == IF pid = "p1" THEN "d1" ELSE "d2"

\* document_name, page_number and section_title of a chunk follow from its
\* document and its parent section.
DocNameOf(d) == IF d = "d1" THEN "d1.pdf" ELSE "d2.pdf"
PageOf(pid) == IF pid = "p2" THEN 2 ELSE 1
SectionOf(pid) ==
    IF pid = "p1" THEN "Intro" ELSE IF pid = "p2" THEN "Terms" ELSE "Unknown Section"

\* Chunks handed to upsert: children made by the chunker (parent_id and
\* parent_text set together, the parent inside the chunk's document) and
\* plain chunks without a parent reference.
ChunkPool ==
    { c \in [text : Texts,
             metadata : [document_id : DocIds,
                         document_name : {DocNameOf(d) : d \in DocIds},
                         page_number : {PageOf(q) : q \in ParentIds},
                         section_title : {SectionOf(q) : q \in ParentIds \cup {NoneVal}},
                         parent_id : ParentIds \cup {NoneVal},
                         parent_text : {ParentTextOf(q) : q \in ParentIds \cup {NoneVal}}]] :
        /\ c.metadata.parent_text = ParentTextOf(c.metadata.parent_id)
        /\ c.metadata.document_name = DocNameOf(c.metadata.document_id)
        /\ c.metadata.page_number = PageOf(c.metadata.parent_id)
        /\ c.metadata.section_title = SectionOf(c.metadata.parent_id)
        /\ c.metadata.parent_id # NoneVal
              => DocOfParent(c.metadata.parent_id) = c.metadata.document_id }

\* payload={**chunk.metadata, "text": chunk.text}
PayloadOf(chunk) ==
    [f \in DOMAIN chunk.metadata \cup {"text"} |->
        IF f = "text" THEN chunk.text ELSE chunk.metadata[f]]

\* Variant: a point is named after its place in the batch.
PointsOfPlaceIds(batch, firstId) ==
    [i \in 1..Len(batch) |-> [id |-> i, payload |-> PayloadOf(batch[i])]]

\* points = [PointStruct(id=uuid4, vector, payload) for chunk, vector in ...]
PointsOf(batch, firstId) ==
    [i \in 1..Len(batch) |-> [id |-> firstId + i - 1, payload |-> PayloadOf(batch[i])]]

\* self.client.upsert(collection_name, points): a point whose id the
\* collection already holds takes that record's place, any other point is
\* added.
RECURSIVE ClientUpsert(_, _)
ClientUpsert(idx, points) ==
    IF points = <<>> THEN idx
    ELSE LET pt == Head(points)
             at == { k \in 1..Len(idx) : idx[k].id = pt.id }
         IN  ClientUpsert(IF at = {} THEN Append(idx, pt)
                          ELSE [k \in 1..Len(idx) |-> IF k \in at THEN pt ELSE idx[k]],
                          Tail(points))

Batches == UNION { [1..n -> ChunkPool] : n \in 1..MaxBatch }

\* VectorStore.upsert: every pair becomes one new point under a fresh id.
\* A call reads the collection once, in its search, so an upsert during a
\* call acts as one before or after it; upserts are taken between calls.
Upsert(batch) ==
    /\ pc = "idle"
    /\ Len(index) + Len(batch) <= MaxIndex
    /\ index' = ClientUpsert(index, PointsOf(batch, nextId))
    /\ nextId' = nextId + Len(batch)
    /\ UNCHANGED <<top_k, use_parent_context, pc, caller, arg_doc, results,
                   ret, answer, prompts, llm_calls>>
    /\ UNCHANGED cvars
    /\ UNCHANGED <<qvars, kvars, gvars>>

-----------------------------------------------------------------------------
(* VectorStore.search                                                      *)

\* Variant: the filter is never built.
MatchingUnfiltered(idx, document_id) == 1..Len(idx)

\* query_filter: None unless document_id is truthy, else an exact match on
\* the payload field document_id.  The positions of the points that pass.
Matching(idx, document_id) ==
    { i \in 1..Len(idx) :
        ~Truthy(document_id) \/ idx[i].payload.document_id = document_id }

\* The similarity ranking depends on vectors the model does not hold, so
\* query_points may rank the matching points in any order; it returns the
\* first `limit` of them.
Rankings(idx, limit, document_id) ==
    LET M == Matching(idx, document_id)
        m == Min(limit, Cardinality(M))
    IN  { s \in [1..m -> M] : \A a, b \in 1..m : a # b => s[a] # s[b] }

\* Similarity scores come back in descending order; rank r of m gets the
\* score m - r + 1.
ScoreAt(rank, m) == m - rank + 1

\* return [{"score": r.score, **r.payload} for r in results]; the key
\* child_text, which no payload has, reads as None.
SearchResult(idx, ranking) ==
    [r \in 1..Len(ranking) |->
        LET payload == idx[ranking[r]].payload
        IN  [f \in DOMAIN payload \cup {"score", "child_text"} |->
                IF f = "score" THEN ScoreAt(r, Len(ranking))
                ELSE IF f = "child_text" THEN NoneVal
                ELSE payload[f]]]

-----------------------------------------------------------------------------
(* Retriever._expand_to_parents                                            *)

\* if parent_id and parent_id in seen_parents: continue
IsDuplicate(parent_id, seen_parents) ==
    Truthy(parent_id) /\ parent_id \in seen_parents

\* Variant: the parent is never remembered.
SeenAfterForgets(parent_id, seen_parents) == seen_parents

\* Variant: every parent_id is remembered, a missing one too.
SeenAfterAlways(parent_id, seen_parents) == seen_parents \cup {parent_id}

\* if parent_id: seen_parents.add(parent_id)
SeenAfter(parent_id, seen_parents) ==
    IF Truthy(parent_id) THEN seen_parents \cup {parent_id} ELSE seen_parents

\* Variant: the displayed text is left as the child's text.
ExpandedRecordChildOnly(r) == [r EXCEPT !.child_text = r.text]

\* Variant: the parent text moves into text and is cleared.
ExpandedRecordClearsParent(r) ==
    [r EXCEPT !.text = IF Truthy(r.parent_text) THEN r.parent_text ELSE r.text,
              !.child_text = r.text,
              !.parent_text = NoneVal]

\* {**r, "text": parent_text if parent_text else r.get("text", ""),
\*       "child_text": r.get("text", "")}
ExpandedRecord(r) ==
    [r EXCEPT !.text = IF Truthy(r.parent_text) THEN r.parent_text ELSE r.text,
              !.child_text = r.text]

\* Variant: the record is put in front of the list.
PrependExpanded(expanded, r) == <<ExpandedRecord(r)>> \o expanded

\* expanded.append(...)
AppendExpanded(expanded, r) == Append(expanded, ExpandedRecord(r))

RECURSIVE ExpandLoop(_, _, _, _)
ExpandLoop(rs, i, seen_parents, expanded) ==
    IF i > Len(rs) THEN expanded
    ELSE IF IsDuplicate(rs[i].parent_id, seen_parents)
         THEN ExpandLoop(rs, i + 1, seen_parents, expanded)
         ELSE ExpandLoop(rs, i + 1, SeenAfter(rs[i].parent_id, seen_parents),
                         AppendExpanded(expanded, rs[i]))

ExpandToParents(rs) == ExpandLoop(rs, 1, {}, <<>>)

-----------------------------------------------------------------------------
(* Retriever.retrieve                                                      *)

NoOutcome == [kind |-> "none", value |-> <<>>]

\* Variant: an empty search result is raised as an error.
RetrieveOutcomeRaisesOnEmpty(rs, expand) ==
    IF rs = <<>> THEN [kind |-> "raise", value |-> "RetrievalEmpty"]
    ELSE [kind |-> "return", value |-> IF expand THEN ExpandToParents(rs) ELSE rs]

\* The outcome of retrieve once search has handed back rs:
\*   if not results: return []
\*   if self.use_parent_context: return self._expand_to_parents(results)
\*   return results
RetrieveOutcome(rs, expand) ==
    IF rs = <<>> THEN [kind |-> "return", value |-> <<>>]
    ELSE IF expand THEN [kind |-> "return", value |-> ExpandToParents(rs)]
    ELSE [kind |-> "return", value |-> rs]

\* Variant: the failure is swallowed and an empty list returned.
RetrieveSwallowsFailure(err) == [kind |-> "return", value |-> <<>>]

\* retrieve has no try/except around embed_query and search: an exception
\* raised by either leaves retrieve as that exception.
RetrieveOnFailure(err) == [kind |-> "raise", value |-> err]

DocArgs == {NoneVal, ""} \cup DocIds

\* The values of top_k a Retriever is constructed with.
TopKs == {1, MaxTopK}

\* A caller invokes retriever.retrieve(query, document_id) directly.  The
\* query text reaches only the embedder, whose ranking is left open.
CallRetrieve(doc) ==
    /\ pc = "idle"
    /\ pc' = "embed"
    /\ caller' = "retrieve"
    /\ arg_doc' = doc
    /\ UNCHANGED <<index, nextId, top_k, use_parent_context, results, ret,
                   answer, prompts, llm_calls>>
    /\ UNCHANGED cvars
    /\ UNCHANGED <<qvars, kvars, gvars>>

\* query_vector = self.embedder.embed_query(expanded) succeeds.
EmbedQuery ==
    /\ pc = "embed"
    /\ pc' = "search"
    /\ UNCHANGED <<index, nextId, top_k, use_parent_context, caller, arg_doc,
                   results, ret, answer, prompts, llm_calls>>
    /\ UNCHANGED cvars
    /\ UNCHANGED <<qvars, kvars, gvars>>

\* The Embedding Provider raises.
EmbedQueryFails ==
    /\ pc = "embed"
    /\ pc' = "retrieved"
    /\ ret' = RetrieveOnFailure("EmbeddingError")
    /\ UNCHANGED <<index, nextId, top_k, use_parent_context, caller, arg_doc,
                   results, answer, prompts, llm_calls>>
    /\ UNCHANGED cvars
    /\ UNCHANGED <<qvars, kvars, gvars>>

\* results = self.store.search(...) succeeds; the rest of retrieve follows.
Search ==
    /\ pc = "search"
    /\ \E ranking \in Rankings(index, top_k, arg_doc) :
          LET rs == SearchResult(index, ranking) IN
          /\ results' = rs
          /\ ret' = RetrieveOutcome(rs, use_parent_context)
    /\ pc' = "retrieved"
    /\ UNCHANGED <<index, nextId, top_k, use_parent_context, caller, arg_doc,
                   answer, prompts, llm_calls>>
    /\ UNCHANGED cvars
    /\ UNCHANGED <<qvars, kvars, gvars>>

\* The Vector Index raises.
SearchFails ==
    /\ pc = "search"
    /\ pc' = "retrieved"
    /\ ret' = RetrieveOnFailure("IndexError")
    /\ UNCHANGED <<index, nextId, top_k, use_parent_context, caller, arg_doc,
                   results, answer, prompts, llm_calls>>
    /\ UNCHANGED cvars
    /\ UNCHANGED <<qvars, kvars, gvars>>

\* The direct caller has received the outcome; the call is over.
RetrieveDone ==
    /\ pc = "retrieved"
    /\ caller = "retrieve"
    /\ pc' = "idle"
    /\ caller' = NoneVal
    /\ arg_doc' = NoneVal
    /\ results' = <<>>
    /\ ret' = NoOutcome
    /\ UNCHANGED <<index, nextId, top_k, use_parent_context, answer, prompts,
                   llm_calls>>
    /\ UNCHANGED cvars
    /\ UNCHANGED <<qvars, kvars, gvars>>

-----------------------------------------------------------------------------
(* RAGService.query                                                        *)

NoAnswer == [kind |-> "none", answer |-> NoneVal, citations |-> <<>>]
NegativeAnswer == "No relevant clause found."

\* citations = [{"doc", "page", "section", "score"} for c in chunks]; the
\* model's records carry the score and the document.
CitationsOf(cs) ==
    [i \in 1..Len(cs) |-> [doc |-> cs[i].document_id, score |-> cs[i].score]]

\* query has no try/except around retrieve: its exception leaves query.
QueryOnRetrieveFailure(err) ==
    [kind |-> "raise", answer |-> err, citations |-> <<>>]

\* if not chunks: return {"answer": "No relevant clause found.", ...}
QueryOnEmpty == [kind |-> "return", answer |-> NegativeAnswer, citations |-> <<>>]

\* A caller invokes rag.query(question, document_id).
CallQuery(doc) ==
    /\ pc = "idle"
    /\ pc' = "embed"
    /\ caller' = "query"
    /\ arg_doc' = doc
    /\ UNCHANGED <<index, nextId, top_k, use_parent_context, results, ret,
                   answer, prompts, llm_calls>>
    /\ UNCHANGED cvars
    /\ UNCHANGED <<qvars, kvars, gvars>>

\* Variant: the check for an empty retrieval is missing.
QueryAfterRetrieveNoEmptyCheck ==
    /\ pc = "retrieved"
    /\ caller = "query"
    /\ IF ret.kind = "raise"
       THEN /\ answer' = QueryOnRetrieveFailure(ret.value)
            /\ pc' = "answered"
            /\ UNCHANGED prompts
       ELSE /\ prompts' = prompts + 1
            /\ pc' = "post"
            /\ UNCHANGED answer
    /\ UNCHANGED <<index, nextId, top_k, use_parent_context, caller, arg_doc,
                   results, ret, llm_calls>>
    /\ UNCHANGED cvars
    /\ UNCHANGED <<qvars, kvars, gvars>>

\* chunks = self.retriever.retrieve(...) has finished inside query.
QueryAfterRetrieve ==
    /\ pc = "retrieved"
    /\ caller = "query"
    /\ IF ret.kind = "raise"
       THEN /\ answer' = QueryOnRetrieveFailure(ret.value)
            /\ pc' = "answered"
            /\ UNCHANGED prompts
       ELSE IF ret.value = <<>>
       THEN /\ answer' = QueryOnEmpty
            /\ pc' = "answered"
            /\ UNCHANGED prompts
       ELSE /\ prompts' = prompts + 1
            /\ pc' = "post"
            /\ UNCHANGED answer
    /\ UNCHANGED <<index, nextId, top_k, use_parent_context, caller, arg_doc,
                   results, ret, llm_calls>>
    /\ UNCHANGED cvars
    /\ UNCHANGED <<qvars, kvars, gvars>>

\* client.post(...) returns 200: the model's answer with the citations.
PostOk ==
    /\ pc = "post"
    /\ llm_calls' = llm_calls + 1
    /\ answer' = [kind |-> "return", answer |-> "LLM-ANSWER",
                  citations |-> CitationsOf(ret.value)]
    /\ pc' = "answered"
    /\ UNCHANGED <<index, nextId, top_k, use_parent_context, caller, arg_doc,
                   results, ret, prompts>>
    /\ UNCHANGED cvars
    /\ UNCHANGED <<qvars, kvars, gvars>>

\* client.post(...) raises, or raise_for_status() does.
PostFails ==
    /\ pc = "post"
    /\ llm_calls' = llm_calls + 1
    /\ answer' = [kind |-> "raise", answer |-> "GatewayError", citations |-> <<>>]
    /\ pc' = "answered"
    /\ UNCHANGED <<index, nextId, top_k, use_parent_context, caller, arg_doc,
                   results, ret, prompts>>
    /\ UNCHANGED cvars
    /\ UNCHANGED <<qvars, kvars, gvars>>

\* The caller of query has received the outcome; the call is over.
QueryDone ==
    /\ pc = "answered"
    /\ pc' = "idle"
    /\ caller' = NoneVal
    /\ arg_doc' = NoneVal
    /\ results' = <<>>
    /\ ret' = NoOutcome
    /\ answer' = NoAnswer
    /\ prompts' = 0
    /\ llm_calls' = 0
    /\ UNCHANGED <<index, nextId, top_k, use_parent_context>>
    /\ UNCHANGED cvars
    /\ UNCHANGED <<qvars, kvars, gvars>>

-----------------------------------------------------------------------------
(* Chunk splitter state when the retrieval specification runs.             *)
NoSection == [text |-> <<>>, headings |-> <<>>, page_no |-> NoneVal]

ChunkIdle ==
    /\ config = [parent_max_tokens |-> 1000, child_max_tokens |-> 300,
                 min_chunk_words |-> 30, embedding_model |-> <<1>>]
    /\ cpc = "new"
    /\ yielded = 0
    /\ raw = NoSection
    /\ parents = <<>>
    /\ children = <<>>
    /\ child_index = 0
    /\ pi = 0
    /\ words = <<>>
    /\ start = 0
    /\ chunks = <<>>
    /\ uuid = 1
    /\ conv_status = NoneVal
    /\ chunk_embeddings = <<>>

\* Retriever(embedder, store, top_k, use_parent_context) over an empty
\* collection.
Init ==
    /\ index = <<>>
    /\ nextId = 1
    /\ top_k \in TopKs
    /\ use_parent_context \in BOOLEAN
    /\ pc = "idle"
    /\ caller = NoneVal
    /\ arg_doc = NoneVal
    /\ results = <<>>
    /\ ret = NoOutcome
    /\ answer = NoAnswer
    /\ prompts = 0
    /\ llm_calls = 0
    /\ ChunkIdle
    /\ RewriteIdle
    /\ ConcIdle
    /\ GatewayIdle

Next ==
    \/ \E batch \in Batches : Upsert(batch)
    \/ \E doc \in DocArgs : CallRetrieve(doc)
    \/ \E doc \in DocArgs : CallQuery(doc)
    \/ EmbedQuery
    \/ EmbedQueryFails
    \/ Search
    \/ SearchFails
    \/ RetrieveDone
    \/ QueryAfterRetrieve
    \/ PostOk
    \/ PostFails
    \/ QueryDone

Spec == Init /\ [][Next]_vars

-----------------------------------------------------------------------------
(* Properties of retrieval, checked under Spec.                            *)

\* retrieve has returned a list (rather than raised) with expansion enabled.
ReturnedExpanded == ret.kind = "return" /\ use_parent_context

\* The rank in `results` of the parent_id p's first occurrence.
FirstRankOf(p) ==
    CHOOSE i \in 1..Len(results) :
        /\ results[i].parent_id = p
        /\ \A j \in 1..(i - 1) : results[j].parent_id # p

\* C1: with parent-context expansion enabled the returned list holds at most
\* one entry per parent_id, and for every parent_id occurring in the search
\* results the surviving entry is the first-ranked result with that
\* parent_id (ranks are told apart by their score).
C1_ParentDedupKeepsFirst ==
    ReturnedExpanded =>
        /\ \A a, b \in 1..Len(ret.value) :
              (a # b /\ Truthy(ret.value[a].parent_id))
                  => ret.value[a].parent_id # ret.value[b].parent_id
        /\ \A i \in 1..Len(results) :
              Truthy(results[i].parent_id) =>
                  \E n \in 1..Len(ret.value) :
                      /\ ret.value[n].parent_id = results[i].parent_id
                      /\ ret.value[n].score = results[FirstRankOf(results[i].parent_id)].score
                      /\ ret.value[n].child_text = results[FirstRankOf(results[i].parent_id)].text

\* Two different children of one parent came back and retrieve has dropped
\* the lower-ranked one.
C1_Witness ==
    /\ ReturnedExpanded
    /\ Len(results) = 2
    /\ Truthy(results[1].parent_id)
    /\ results[2].parent_id = results[1].parent_id
    /\ results[2].text # results[1].text
    /\ Len(ret.value) = 1
    /\ ret.value[1].child_text = results[1].text

\* The search result an entry of the returned list was made from.
SourceOf(entry) == CHOOSE i \in 1..Len(results) : results[i].score = entry.score

SameEntry(e, r) ==
    /\ e.score = r.score
    /\ e.document_id = r.document_id
    /\ e.parent_id = r.parent_id
    /\ e.parent_text = r.parent_text
    /\ \/ e.child_text = r.text
       \/ e.child_text = NoneVal /\ e.text = r.text

\* C3: the list retrieve returns is an order-preserving subsequence of the
\* ranked list the index search returned, so it is never longer than that
\* list, which itself has at most top_k entries.
C3_OrderPreservingSubsequence ==
    ret.kind = "return" =>
        /\ Len(ret.value) <= Len(results)
        /\ Len(results) <= top_k
        /\ \E f \in [1..Len(ret.value) -> 1..Len(results)] :
              /\ \A a, b \in 1..Len(ret.value) : a < b => f[a] < f[b]
              /\ \A n \in 1..Len(ret.value) : SameEntry(ret.value[n], results[f[n]])

\* Two results came back, both survive the expansion, in rank order.
C3_Witness ==
    /\ ReturnedExpanded
    /\ Len(results) = 2
    /\ Len(ret.value) = 2
    /\ Truthy(ret.value[1].parent_id)
    /\ ret.value[1].text # results[1].text
    /\ ret.value[1].score = results[1].score
    /\ ret.value[2].score = results[2].score

\* C4: when retrieve is issued with a document_id (an id that is given, i.e.
\* neither None nor empty), every record search returned and every record
\* retrieve returns was stored under exactly that document_id.
C4_ScopedSearchIsolation ==
    (Truthy(arg_doc) /\ ret.kind = "return") =>
        /\ \A n \in 1..Len(results) : results[n].document_id = arg_doc
        /\ \A n \in 1..Len(ret.value) : ret.value[n].document_id = arg_doc

\* A scoped call returned records although the collection also holds a
\* chunk of another document.
C4_Witness ==
    /\ Truthy(arg_doc)
    /\ ret.kind = "return"
    /\ ret.value # <<>>
    /\ \E i \in 1..Len(index) : index[i].payload.document_id # arg_doc
    /\ Len(results) < Min(top_k, Len(index))

\* C5: if nothing in the collection passes the filter the search returns
\* zero results, and whenever the search returns zero results retrieve
\* returns the empty list and raises nothing, expansion enabled or not.
C5_EmptySearchReturnsEmpty ==
    [][ Search =>
          /\ Matching(index, arg_doc) = {} => results' = <<>>
          /\ results' = <<>> => ret' = [kind |-> "return", value |-> <<>>] ]_vars

\* A call scoped to a document without chunks in a non-empty collection
\* came back empty.
C5_Witness ==
    /\ pc = "retrieved"
    /\ index # <<>>
    /\ Truthy(arg_doc)
    /\ results = <<>>
    /\ ret = [kind |-> "return", value |-> <<>>]

\* C6: a failure of the Embedding Provider or of the Vector Index leaves
\* retrieve as an error, never as a returned list, and leaves
\* RAGService.query as that error, never as the negative answer; the
\* negative answer is only given for a returned empty list.
C6_BackendFailurePropagates ==
    [][ /\ (EmbedQueryFails \/ SearchFails) =>
              (ret'.kind = "raise" /\ ret'.value \in {"EmbeddingError", "IndexError"})
        /\ (QueryAfterRetrieve /\ ret.kind = "raise") =>
              (answer'.kind = "raise" /\ answer'.answer = ret.value)
        /\ (QueryAfterRetrieve /\ answer'.answer = NegativeAnswer) =>
              (ret.kind = "return" /\ ret.value = <<>>) ]_vars

\* The index failed inside a query call and the caller got the error.
C6_Witness ==
    /\ pc = "answered"
    /\ ret = [kind |-> "raise", value |-> "IndexError"]
    /\ answer.kind = "raise"
    /\ answer.answer = "IndexError"

\* C20: when retrieve returns an empty list inside RAGService.query, the
\* query returns the answer "No relevant clause found." with no citation,
\* no prompt is assembled and the inference backend is not called.
C20_EmptyRetrievalShortCircuits ==
    (/\ caller = "query"
     /\ pc \in {"post", "answered"}
     /\ ret.kind = "return"
     /\ ret.value = <<>>) =>
        /\ pc = "answered"
        /\ answer.kind = "return"
        /\ answer.answer = "No relevant clause found."
        /\ answer.citations = <<>>
        /\ prompts = 0
        /\ llm_calls = 0

\* A query scoped to a document found nothing in a collection that holds
\* points, and was answered.
C20_Witness ==
    /\ caller = "query"
    /\ pc = "answered"
    /\ index # <<>>
    /\ Truthy(arg_doc)
    /\ ret.kind = "return"
    /\ ret.value = <<>>
    /\ answer.answer = "No relevant clause found."

\* C22: an upsert call adds exactly one new point per (chunk, vector) pair,
\* its payload being the chunk's metadata plus its text, under an id no
\* other point has; the points already in the collection stay as they are.
\* From the empty collection on, the number of points is therefore the
\* number of chunks upserted.
C22_UpsertOnlyAdds ==
    [][ \A batch \in Batches :
          Upsert(batch) =>
              /\ Len(index') = Len(index) + Len(batch)
              /\ SubSeq(index', 1, Len(index)) = index
              /\ \A i \in 1..Len(batch) :
                    LET pt == index'[Len(index) + i]
                    IN  /\ DOMAIN pt.payload = DOMAIN batch[i].metadata \cup {"text"}
                        /\ pt.payload.text = batch[i].text
                        /\ \A f \in DOMAIN batch[i].metadata :
                              pt.payload[f] = batch[i].metadata[f]
              /\ \A a, b \in 1..Len(index') :
                    index'[a].id = index'[b].id => a = b ]_vars

\* The same chunk was upserted by two calls and the collection holds it as
\* two points.
C22_Witness ==
    /\ Len(index) = 2
    /\ nextId = 3
    /\ index[1].id # index[2].id
    /\ index[1].payload = index[2].payload
    /\ pc = "idle"

\* C28: expansion changes only text and child_text of a result: score,
\* document_id, document_name, page_number, section_title, parent_id and
\* parent_text of every returned entry are those of the search result it
\* was made from, and the search results themselves are left as search
\* handed them back (without a child_text).
C28_ExpansionKeepsOtherFields ==
    ReturnedExpanded =>
        /\ \A n \in 1..Len(ret.value) :
              LET e == ret.value[n]
                  r == results[SourceOf(e)]
              IN  /\ \E i \in 1..Len(results) : results[i].score = e.score
                  /\ DOMAIN e = DOMAIN r
                  /\ {"score", "document_id", "document_name", "page_number",
                      "section_title", "parent_id", "parent_text"} \subseteq DOMAIN r
                  /\ \A f \in DOMAIN r \ {"text", "child_text"} : e[f] = r[f]
        /\ \A i \in 1..Len(results) : results[i].child_text = NoneVal

\* A child of the second section came back expanded: its text is now the
\* parent's, everything else is as search returned it.
C28_Witness ==
    /\ ReturnedExpanded
    /\ \E n \in 1..Len(ret.value) :
          LET e == ret.value[n]
          IN  /\ e.parent_id = "p2"
              /\ e.text = ParentTextOf("p2")
              /\ e.text # results[SourceOf(e)].text
              /\ e.child_text = results[SourceOf(e)].text
              /\ e.parent_text = ParentTextOf("p2")
              /\ e.document_id = "d2"
              /\ e.document_name = "d2.pdf"
              /\ e.page_number = 2
              /\ e.section_title = "Terms"

-----------------------------------------------------------------------------
(* Text.  A text is a sequence of characters of two kinds: 0 is a          *)
(* whitespace character, a positive number is a whole word (a maximal run  *)
(* of non-whitespace characters, told apart by its number).                *)

IsSpace(ch) == ch = 0

\* str.strip(): drop the leading and the trailing whitespace.
RECURSIVE LStrip(_)
LStrip(t) == IF t # <<>> /\ IsSpace(Head(t)) THEN LStrip(Tail(t)) ELSE t

RECURSIVE RStrip(_)
RStrip(t) ==
    IF t # <<>> /\ IsSpace(t[Len(t)]) THEN RStrip(SubSeq(t, 1, Len(t) - 1)) ELSE t

Strip(t) == RStrip(LStrip(t))

\* str.split(): the words, in order, whatever whitespace separates them.
Split(t) == SelectSeq(t, LAMBDA ch : ~IsSpace(ch))

\* " ".join(ws): the words with one whitespace character between neighbours.
RECURSIVE Join(_)
Join(ws) ==
    IF ws = <<>> THEN <<>>
    ELSE IF Len(ws) = 1 THEN ws
    ELSE <<Head(ws), 0>> \o Join(Tail(ws))

\* len(text.split())
WordCount(t) == Len(Split(t))

\* The text of n words numbered 1..n; `wide` doubles the first gap, `padded`
\* puts whitespace before and after.
RECURSIVE WordsFrom(_, _)
WordsFrom(k, n) == IF k > n THEN <<>> ELSE <<k>> \o WordsFrom(k + 1, n)

RawText(n, padded, wide) ==
    LET body == IF n >= 2 /\ wide
                THEN <<1, 0, 0>> \o Join(WordsFrom(2, n))
                ELSE Join(WordsFrom(1, n))
    IN  IF padded THEN <<0>> \o body \o <<0, 0>> ELSE body

\* What the hierarchical chunker may yield for one section: its text, its
\* headings and the page of its first content item.
SectionPool ==
    { [text |-> RawText(n, FALSE, FALSE), headings |-> <<"Intro", "Sub">>, page_no |-> 1] :
        n \in 0..MaxSectionWords }
    \cup
    { [text |-> RawText(n, TRUE, TRUE), headings |-> <<>>, page_no |-> NoneVal] :
        n \in 0..2 }
    \cup
    { [text |-> RawText(LongSectionWords, FALSE, FALSE), headings |-> <<"Terms">>, page_no |-> 2],
      [text |-> RawText(TailSectionWords, FALSE, FALSE), headings |-> <<"Terms">>, page_no |-> 3] }

-----------------------------------------------------------------------------
(* HierarchicalChunkConfig                                                 *)

\* DEFAULT_WORD_TO_TOKEN_RATIO = 0.75 and DEFAULT_OVERLAP_RATIO = 0.15 as
\* fractions; int(x * ratio) = (x * num) \div den for the non-negative x of
\* an accepted configuration.
WordToTokenNum == 3
WordToTokenDen == 4
OverlapNum == 15
OverlapDen == 100

\* The embedding model ids a caller may pass: the empty string, a blank
\* string, a model id, and a model id with spaces around it.
ModelIds == {<<>>, <<0, 0>>, <<1>>, <<0, 1, 0>>}

\* The configurations a caller may try to construct.
ConfigPool ==
    { [parent_max_tokens |-> p, child_max_tokens |-> c,
       min_chunk_words |-> m, embedding_model |-> e] :
        c \in ((-1)..MaxCmt) \cup {OverlapCmt},
        p \in {-1, 0, MaxCmt, OverlapCmt + 1},
        m \in (-1)..MaxMin,
        e \in ModelIds }

\* Variant: a child budget equal to the parent budget is accepted.
ConfigErrorAllowsEqual(c) ==
    IF c.parent_max_tokens <= 0 THEN "parent_max_tokens must be positive"
    ELSE IF c.child_max_tokens <= 0 THEN "child_max_tokens must be positive"
    ELSE IF c.child_max_tokens > c.parent_max_tokens
         THEN "child_max_tokens must be less than parent_max_tokens"
    ELSE IF c.min_chunk_words < 0 THEN "min_chunk_words cannot be negative"
    ELSE IF Strip(c.embedding_model) = <<>> THEN "embedding_model cannot be empty"
    ELSE NoneVal

\* __post_init__: the first check that fails raises ValueError.
ConfigError(c) ==
    IF c.parent_max_tokens <= 0 THEN "parent_max_tokens must be positive"
    ELSE IF c.child_max_tokens <= 0 THEN "child_max_tokens must be positive"
    ELSE IF c.child_max_tokens >= c.parent_max_tokens
         THEN "child_max_tokens must be less than parent_max_tokens"
    ELSE IF c.min_chunk_words < 0 THEN "min_chunk_words cannot be negative"
    ELSE IF Strip(c.embedding_model) = <<>> THEN "embedding_model cannot be empty"
    ELSE NoneVal

\* max_words = int(self.config.child_max_tokens * DEFAULT_WORD_TO_TOKEN_RATIO)
MaxWordsOf(c) == (c.child_max_tokens * WordToTokenNum) \div WordToTokenDen

\* overlap = int(max_words * DEFAULT_OVERLAP_RATIO)
OverlapOf(max_words) == (max_words * OverlapNum) \div OverlapDen

-----------------------------------------------------------------------------
(* HierarchicalDocChunker                                                  *)

DocId == "d1"
DocName == "d1.pdf"

\* HierarchicalChunkConfig(...) then HierarchicalDocChunker(config).
Construct ==
    /\ cpc = "new"
    /\ cpc' = IF ConfigError(config) = NoneVal THEN "ready" ELSE "config_error"
    /\ UNCHANGED <<conv_status, chunk_embeddings, config, yielded, raw, parents, children, child_index, pi,
                   words, start, chunks, uuid>>
    /\ UNCHANGED rvars
    /\ UNCHANGED <<qvars, kvars, gvars>>

\* The statuses a finished conversion reports.
ConversionStatuses == {"SUCCESS", "PARTIAL_SUCCESS", "FAILURE"}

\* Variant: no status counts as a failure.
ConversionFailedNever(status) == FALSE

\* if result.status == ConversionStatus.FAILURE
ConversionFailed(status) == status = "FAILURE"

\* chunk_pdf: the converter did not fail; _build_parents starts.
Convert(status) ==
    /\ cpc = "ready"
    /\ ~ConversionFailed(status)
    /\ conv_status' = status
    /\ cpc' = "parents"
    /\ UNCHANGED <<chunk_embeddings, config, yielded, raw, parents, children,
                   child_index, pi, words, start, chunks, uuid>>
    /\ UNCHANGED rvars
    /\ UNCHANGED <<qvars, kvars, gvars>>

\* chunk_pdf: a failed conversion raises RuntimeError; main does not catch
\* it, so the ingestion ends here.
ConvertFails(status) ==
    /\ cpc = "ready"
    /\ ConversionFailed(status)
    /\ conv_status' = status
    /\ cpc' = "conversion_error"
    /\ UNCHANGED <<chunk_embeddings, config, yielded, raw, parents, children,
                   child_index, pi, words, start, chunks, uuid>>
    /\ UNCHANGED rvars
    /\ UNCHANGED <<qvars, kvars, gvars>>

\* Variant: a section of exactly min_chunk_words words is skipped too.
SkipSectionAtThreshold(text, c) == text = <<>> \/ WordCount(text) <= c.min_chunk_words

\* if not text or len(text.split()) < self.config.min_chunk_words: continue
SkipSection(text, c) == text = <<>> \/ WordCount(text) < c.min_chunk_words

\* section_title = headings[0] if headings else "Unknown Section"
SectionTitle(headings) == IF headings # <<>> THEN headings[1] ELSE "Unknown Section"

\* ParentChunk(parent_id, text, metadata) of one kept section.
ParentOf(section, id) ==
    [parent_id |-> id,
     text      |-> Strip(section.text),
     metadata  |-> [document_id   |-> DocId,
                    document_name |-> DocName,
                    page_number   |-> section.page_no,
                    section_title |-> SectionTitle(section.headings),
                    headings      |-> section.headings]]

\* One pass of the loop of _build_parents over the next section.
BuildParentsStep(section) ==
    /\ cpc = "parents"
    /\ yielded < MaxSections
    /\ yielded' = yielded + 1
    /\ raw' = section
    /\ IF SkipSection(Strip(section.text), config)
       THEN UNCHANGED <<parents, uuid>>
       ELSE /\ parents' = Append(parents, ParentOf(section, uuid))
            /\ uuid' = uuid + 1
    /\ UNCHANGED <<conv_status, chunk_embeddings, config, cpc, children, child_index, pi, words, start, chunks>>
    /\ UNCHANGED rvars
    /\ UNCHANGED <<qvars, kvars, gvars>>

\* The hierarchical chunker is exhausted: return parents; _build_children
\* starts with children = [] and child_index = 0.
BuildParentsEnd ==
    /\ cpc = "parents"
    /\ cpc' = "children"
    /\ raw' = NoSection
    /\ pi' = 1
    /\ children' = <<>>
    /\ child_index' = 0
    /\ UNCHANGED <<conv_status, chunk_embeddings, config, yielded, parents, words, start, chunks, uuid>>
    /\ UNCHANGED rvars
    /\ UNCHANGED <<qvars, kvars, gvars>>

\* Variant: the child carries the provenance of the document's first section
\* instead of its own parent's.
ChildOfFirstSection(parent, sub_text, id, idx) ==
    [chunk_id |-> id,
     text     |-> sub_text,
     metadata |-> [document_id   |-> parent.metadata.document_id,
                   document_name |-> parent.metadata.document_name,
                   page_number   |-> 1,
                   section_title |-> "Intro",
                   headings      |-> <<"Intro", "Sub">>,
                   chunk_index   |-> idx,
                   parent_id     |-> parent.parent_id,
                   parent_text   |-> parent.text]]

\* Variant: the child's id is derived from its parent's id alone.
ChildOfParentDraw(parent, sub_text, id, idx) ==
    [chunk_id |-> parent.parent_id,
     text     |-> sub_text,
     metadata |-> [document_id   |-> parent.metadata.document_id,
                   document_name |-> parent.metadata.document_name,
                   page_number   |-> parent.metadata.page_number,
                   section_title |-> parent.metadata.section_title,
                   headings      |-> parent.metadata.headings,
                   chunk_index   |-> idx,
                   parent_id     |-> parent.parent_id,
                   parent_text   |-> parent.text]]

\* Chunk(chunk_id, text, metadata) made from one kept sub_text.
ChildOf(parent, sub_text, id, idx) ==
    [chunk_id |-> id,
     text     |-> sub_text,
     metadata |-> [document_id   |-> parent.metadata.document_id,
                   document_name |-> parent.metadata.document_name,
                   page_number   |-> parent.metadata.page_number,
                   section_title |-> parent.metadata.section_title,
                   headings      |-> parent.metadata.headings,
                   chunk_index   |-> idx,
                   parent_id     |-> parent.parent_id,
                   parent_text   |-> parent.text]]

\* Variant: no sub_text is dropped.
SkipChildNever(sub_text, c) == FALSE

\* if len(sub_text.split()) < self.config.min_chunk_words: continue
SkipChild(sub_text, c) == WordCount(sub_text) < c.min_chunk_words

\* for sub_text in sub_texts: ... children.append(Chunk(...)); child_index += 1
\* The state [children, child_index, uuid] after the inner loop from i on.
RECURSIVE AppendChildren(_, _, _, _, _)
AppendChildren(st, parent, sub_texts, i, c) ==
    IF i > Len(sub_texts) THEN st
    ELSE IF SkipChild(sub_texts[i], c)
         THEN AppendChildren(st, parent, sub_texts, i + 1, c)
         ELSE AppendChildren(
                  [children    |-> Append(st.children,
                                          ChildOf(parent, sub_texts[i], st.uuid, st.child_index)),
                   child_index |-> st.child_index + 1,
                   uuid        |-> st.uuid + 1],
                  parent, sub_texts, i + 1, c)

\* Variant: a text of exactly max_words words goes through the loop.
FitsWindowStrict(ws, max_words) == Len(ws) < max_words

\* if len(words) <= max_words: return [text]
FitsWindow(ws, max_words) == Len(ws) <= max_words

\* Variant: the window takes one word more.
WindowEndOneMore(st, max_words, n) == Min(st + max_words + 1, n)

\* end = min(start + max_words, len(words))
WindowEnd(st, max_words, n) == Min(st + max_words, n)

\* " ".join(words[start:end])
Window(ws, st, en) == Join(SubSeq(ws, st + 1, en))

\* start += max_words - overlap
NextStart(st, max_words, overlap) == st + (max_words - overlap)

\* while start < len(words)
LoopContinues(st, ws) == st < Len(ws)

\* _build_children takes the next parent and calls _token_split(parent.text):
\* a text within the window comes back whole and its child is appended at
\* once, a longer one enters the sliding-window loop.
TokenSplitEnter ==
    /\ cpc = "children"
    /\ pi <= Len(parents)
    /\ LET text == parents[pi].text
           ws   == Split(text)
       IN  IF FitsWindow(ws, MaxWordsOf(config))
           THEN LET st == AppendChildren(
                              [children |-> children, child_index |-> child_index,
                               uuid |-> uuid],
                              parents[pi], <<text>>, 1, config)
                IN  /\ children' = st.children
                    /\ child_index' = st.child_index
                    /\ uuid' = st.uuid
                    /\ pi' = pi + 1
                    /\ UNCHANGED <<cpc, words, start, chunks>>
           ELSE /\ cpc' = "split"
                /\ words' = ws
                /\ start' = 0
                /\ chunks' = <<>>
                /\ UNCHANGED <<children, child_index, uuid, pi>>
    /\ UNCHANGED <<conv_status, chunk_embeddings, config, yielded, raw, parents>>
    /\ UNCHANGED rvars
    /\ UNCHANGED <<qvars, kvars, gvars>>

\* One pass of the while loop of _token_split.  (A loop that advances emits
\* at most one window per word; the model follows a loop for MaxIter passes
\* more than that.)
TokenSplitStep ==
    /\ cpc = "split"
    /\ LoopContinues(start, words)
    /\ Len(chunks) < Len(words) + MaxIter
    /\ LET max_words == MaxWordsOf(config)
           end       == WindowEnd(start, max_words, Len(words))
       IN  /\ chunks' = Append(chunks, Window(words, start, end))
           /\ start' = NextStart(start, max_words, OverlapOf(max_words))
    /\ UNCHANGED <<conv_status, chunk_embeddings, config, cpc, yielded, raw, parents, children, child_index,
                   pi, words, uuid>>
    /\ UNCHANGED rvars
    /\ UNCHANGED <<qvars, kvars, gvars>>

\* The while loop ends: return chunks; _build_children filters and appends
\* the children of this parent.
TokenSplitReturn ==
    /\ cpc = "split"
    /\ ~LoopContinues(start, words)
    /\ LET st == AppendChildren(
                     [children |-> children, child_index |-> child_index,
                      uuid |-> uuid],
                     parents[pi], chunks, 1, config)
       IN  /\ children' = st.children
           /\ child_index' = st.child_index
           /\ uuid' = st.uuid
    /\ pi' = pi + 1
    /\ cpc' = "children"
    /\ words' = <<>>
    /\ start' = 0
    /\ chunks' = <<>>
    /\ UNCHANGED <<conv_status, chunk_embeddings, config, yielded, raw, parents>>
    /\ UNCHANGED rvars
    /\ UNCHANGED <<qvars, kvars, gvars>>

\* All parents are split: return children; chunk_pdf returns them.
BuildChildrenEnd ==
    /\ cpc = "children"
    /\ pi > Len(parents)
    /\ cpc' = "done"
    /\ UNCHANGED <<conv_status, chunk_embeddings, config, yielded, raw, parents, children, child_index, pi,
                   words, start, chunks, uuid>>
    /\ UNCHANGED rvars
    /\ UNCHANGED <<qvars, kvars, gvars>>

\* main: chunk_embeddings = embedder.embed_chunks(chunks) pairs every
\* returned chunk with its vector.
EmbedChunks ==
    /\ cpc = "done"
    /\ cpc' = "embedded"
    /\ chunk_embeddings' = children
    /\ UNCHANGED <<conv_status, config, yielded, raw, parents, children,
                   child_index, pi, words, start, chunks, uuid>>
    /\ UNCHANGED rvars
    /\ UNCHANGED <<qvars, kvars, gvars>>

\* main: store.create_collection(...); store.upsert(chunk_embeddings).
IngestUpsert ==
    /\ cpc = "embedded"
    /\ cpc' = "indexed"
    /\ index' = ClientUpsert(index, PointsOf(chunk_embeddings, nextId))
    /\ nextId' = nextId + Len(chunk_embeddings)
    /\ UNCHANGED <<top_k, use_parent_context, pc, caller, arg_doc, results,
                   ret, answer, prompts, llm_calls>>
    /\ UNCHANGED <<conv_status, chunk_embeddings, config, yielded, raw, parents,
                   children, child_index, pi, words, start, chunks, uuid>>
    /\ UNCHANGED <<qvars, kvars, gvars>>

\* The retrieval side while the chunk splitter specification runs.
RetrieveIdle ==
    /\ index = <<>>
    /\ nextId = 1
    /\ top_k = 5
    /\ use_parent_context = TRUE
    /\ pc = "idle"
    /\ caller = NoneVal
    /\ arg_doc = NoneVal
    /\ results = <<>>
    /\ ret = NoOutcome
    /\ answer = NoAnswer
    /\ prompts = 0
    /\ llm_calls = 0

ChunkInit ==
    /\ config \in ConfigPool
    /\ cpc = "new"
    /\ yielded = 0
    /\ raw = NoSection
    /\ parents = <<>>
    /\ children = <<>>
    /\ child_index = 0
    /\ pi = 0
    /\ words = <<>>
    /\ start = 0
    /\ chunks = <<>>
    /\ uuid = 1
    /\ conv_status = NoneVal
    /\ chunk_embeddings = <<>>
    /\ RetrieveIdle
    /\ RewriteIdle
    /\ ConcIdle
    /\ GatewayIdle

ChunkNext ==
    \/ Construct
    \/ \E status \in ConversionStatuses : Convert(status)
    \/ \E status \in ConversionStatuses : ConvertFails(status)
    \/ \E section \in SectionPool : BuildParentsStep(section)
    \/ BuildParentsEnd
    \/ TokenSplitEnter
    \/ TokenSplitStep
    \/ TokenSplitReturn
    \/ BuildChildrenEnd
    \/ EmbedChunks
    \/ IngestUpsert

ChunkSpec == ChunkInit /\ [][ChunkNext]_vars

-----------------------------------------------------------------------------
(* Properties of the chunk splitter, checked under ChunkSpec.              *)

Range(f) == { f[i] : i \in DOMAIN f }

\* The words held by the returned children of the parent with this id.
ChildWordsOf(pid) ==
    UNION { Range(Split(children[i].text)) :
              i \in { j \in 1..Len(children) : children[j].metadata.parent_id = pid } }

\* C7: for a document whose sections all have at least min_chunk_words
\* words, the children returned for a parent cover every word of that
\* parent: no word of any parent is missing from its returned children.
C7_ChildrenCoverParent ==
    (cpc = "done" /\ Len(parents) = yielded) =>
        \A k \in 1..Len(parents) :
            Range(Split(parents[k].text)) \subseteq ChildWordsOf(parents[k].parent_id)

\* C8: no child chunk has more words than floor(child_max_tokens * 0.75),
\* a parent emitted unsplit as a single child included.
C8_WindowSizeBound ==
    \A i \in 1..Len(children) :
        4 * WordCount(children[i].text) <= 3 * config.child_max_tokens

\* A split parent and an unsplit parent have both been returned with a
\* child of exactly floor(child_max_tokens * 0.75) words.
C8_Witness ==
    /\ cpc = "done"
    /\ \E i, j \in 1..Len(children) :
          /\ children[i].metadata.parent_id # children[j].metadata.parent_id
          /\ children[i].text = children[i].metadata.parent_text
          /\ children[j].text # children[j].metadata.parent_text
          /\ \A k \in {i, j} :
                /\ 4 * WordCount(children[k].text) <= 3 * config.child_max_tokens
                /\ 4 * (WordCount(children[k].text) + 1) > 3 * config.child_max_tokens

\* C9: under every accepted configuration child splitting terminates: each
\* pass of the sliding-window loop emits a window of at least one word, so
\* the loop emits no more windows than the text has words.
C9_SplitTerminates ==
    cpc = "split" =>
        /\ \A i \in 1..Len(chunks) : WordCount(chunks[i]) >= 1
        /\ Len(chunks) <= Len(words)

\* The step of _build_parents over one section.
ParentStep == cpc = "parents" /\ yielded' = yielded + 1

\* C10 as stated: a section becomes a parent exactly when the word count of
\* its trimmed text is at least min_chunk_words.
C10_ParentIffEnoughWords ==
    [][ ParentStep =>
          (Len(parents') = Len(parents) + 1
              <=> WordCount(Strip(raw'.text)) >= config.min_chunk_words) ]_vars

\* C10 as amended: a section becomes a parent exactly when its trimmed text
\* is not empty and has at least min_chunk_words words; otherwise it yields
\* no parent; a document that yields no parent returns an empty result.
C10_ParentIffNonEmptyAndEnoughWords ==
    [][ /\ ParentStep =>
              /\ Len(parents') = Len(parents) + 1
                    <=> /\ Strip(raw'.text) # <<>>
                        /\ WordCount(Strip(raw'.text)) >= config.min_chunk_words
              /\ Len(parents') # Len(parents) + 1 => parents' = parents
              /\ Len(parents') = Len(parents) + 1 =>
                    parents'[Len(parents')].text = Strip(raw'.text)
        /\ (cpc = "children" /\ parents = <<>>) =>
              (cpc' = "done" /\ children' = <<>>) ]_vars

\* A kept section was followed by a one-word section that min_chunk_words = 3
\* filtered out.
C10_Witness ==
    /\ cpc = "parents"
    /\ config.min_chunk_words = 3
    /\ yielded = 2
    /\ WordCount(raw.text) = 1
    /\ Len(parents) = 1
    /\ WordCount(parents[1].text) = 3

\* The provenance fields a child copies from its parent.
ProvenanceFields == {"document_id", "document_name", "page_number",
                     "section_title", "headings"}

\* C11: every child built in an ingestion pass names a parent built in that
\* same pass, and its parent_text and provenance fields (document_id,
\* document_name, page_number, section_title, headings) are that parent's
\* text and metadata.
C11_ChildMatchesItsParent ==
    \A i \in 1..Len(children) :
        \E k \in 1..Len(parents) :
            /\ children[i].metadata.parent_id = parents[k].parent_id
            /\ children[i].metadata.parent_text = parents[k].text
            /\ \A f \in ProvenanceFields \ {"page_number"} :
                  children[i].metadata[f] = parents[k].metadata[f]
            /\ children[i].metadata.page_number = parents[k].metadata.page_number

\* The pass returned children of two parents that differ in page, title and
\* headings, one of them with several children.
C11_Witness ==
    /\ cpc = "done"
    /\ Len(parents) = 2
    /\ parents[1].metadata.section_title = "Intro"
    /\ parents[1].metadata.page_number = 1
    /\ parents[2].metadata.section_title = "Terms"
    /\ parents[2].metadata.page_number = 2
    /\ parents[1].metadata.headings # parents[2].metadata.headings
    /\ \E i, j \in 1..Len(children) :
          /\ children[i].metadata.parent_id = parents[1].parent_id
          /\ children[j].metadata.parent_id = parents[2].parent_id
    /\ \E i, j \in 1..Len(children) :
          /\ i # j
          /\ children[i].metadata.parent_id = children[j].metadata.parent_id

\* C12: within one ingestion pass no two parent chunks have the same
\* parent_id and no two child chunks have the same chunk_id.  (The variable
\* uuid numbers the calls of uuid.uuid4(); the eight hex digits kept from
\* each call are taken to differ from call to call.)
C12_IdsUniqueInPass ==
    /\ \A i, j \in 1..Len(parents) :
          parents[i].parent_id = parents[j].parent_id => i = j
    /\ \A i, j \in 1..Len(children) :
          children[i].chunk_id = children[j].chunk_id => i = j

\* The pass returned two parents and at least three children, two of them
\* of the same parent.
C12_Witness ==
    /\ cpc = "done"
    /\ Len(parents) = 2
    /\ Len(children) >= 3
    /\ \E i, j \in 1..Len(children) :
          /\ i # j
          /\ children[i].metadata.parent_id = children[j].metadata.parent_id
    /\ \E i, j \in 1..Len(children) :
          children[i].metadata.parent_id # children[j].metadata.parent_id

\* C13: the chunk_index of a child is its position within its own parent:
\* the kept children of each parent carry 0, 1, 2, ... in window order,
\* starting again at 0 for every parent.
C13_ChunkIndexWithinParent ==
    \A i \in 1..Len(children) :
        children[i].metadata.chunk_index =
            Cardinality({ j \in 1..(i - 1) :
                            children[j].metadata.parent_id
                                = children[i].metadata.parent_id })

\* C14: constructing a chunking configuration fails with a configuration
\* error exactly when parent_max_tokens <= 0, or child_max_tokens <= 0, or
\* child_max_tokens >= parent_max_tokens, or min_chunk_words < 0, or the
\* embedding model id is empty or blank; every other combination is
\* accepted.
C14_ConfigRejectedIff ==
    cpc # "new" =>
        (cpc = "config_error" <=>
            \/ config.parent_max_tokens <= 0
            \/ config.child_max_tokens <= 0
            \/ config.child_max_tokens >= config.parent_max_tokens
            \/ config.min_chunk_words < 0
            \/ \A i \in 1..Len(config.embedding_model) :
                   config.embedding_model[i] = 0)

\* A configuration whose only fault is a blank embedding model id was
\* rejected.
C14_Witness ==
    /\ cpc = "config_error"
    /\ config.parent_max_tokens > 0
    /\ config.child_max_tokens > 0
    /\ config.child_max_tokens < config.parent_max_tokens
    /\ config.min_chunk_words >= 0
    /\ config.embedding_model = <<0, 0>>

\* C15: when the conversion reports failure, chunk_pdf raises and returns no
\* chunk at all, and in the ingestion sequence (chunk, embed, upsert)
\* nothing of that document is embedded or written to the vector index.
C15_FailedConversionIngestsNothing ==
    conv_status = "FAILURE" =>
        /\ cpc = "conversion_error"
        /\ parents = <<>>
        /\ children = <<>>
        /\ chunk_embeddings = <<>>
        /\ index = <<>>

\* A conversion reported failure and chunk_pdf raised.
C15_Witness ==
    /\ conv_status = "FAILURE"
    /\ cpc = "conversion_error"
    /\ ConfigError(config) = NoneVal

\* The parents _build_children has finished with.
SplitParents ==
    IF cpc \in {"children", "split", "done", "embedded", "indexed"}
    THEN { k \in 1..Len(parents) : k < pi }
    ELSE {}

\* The children returned so far for the parent at position k.
ChildrenOfParent(k) ==
    { i \in 1..Len(children) : children[i].metadata.parent_id = parents[k].parent_id }

\* C24: a retained parent of at most floor(child_max_tokens * 0.75) words,
\* the equal case included, yields exactly one child, whose text is the
\* parent's text unchanged; the window loop is entered, and more than one
\* child is returned for a parent, only when the parent has more words than
\* the window.
C24_ShortParentOneChild ==
    /\ \A k \in SplitParents :
          WordCount(parents[k].text) <= MaxWordsOf(config) =>
              /\ Cardinality(ChildrenOfParent(k)) = 1
              /\ \A i \in ChildrenOfParent(k) : children[i].text = parents[k].text
    /\ \A k \in SplitParents :
          Cardinality(ChildrenOfParent(k)) > 1 =>
              WordCount(parents[k].text) > MaxWordsOf(config)
    /\ cpc = "split" => Len(words) > MaxWordsOf(config)

\* A parent of exactly as many words as the window holds came back as one
\* child with the parent's text.
C24_Witness ==
    \E k \in SplitParents :
        /\ MaxWordsOf(config) >= 2
        /\ WordCount(parents[k].text) = MaxWordsOf(config)
        /\ \E i \in ChildrenOfParent(k) : children[i].text = parents[k].text

\* C25: every returned child has at least min_chunk_words words.
C25_ChildrenLongEnough ==
    \A i \in 1..Len(children) :
        WordCount(children[i].text) >= config.min_chunk_words

\* The last window of a parent was shorter than min_chunk_words and was
\* dropped, the windows before it were returned.
C25_Witness ==
    \E k \in SplitParents :
        /\ config.min_chunk_words >= 2
        /\ MaxWordsOf(config) >= 2
        /\ ChildrenOfParent(k) # {}
        /\ ChildWordsOf(parents[k].parent_id) # Range(Split(parents[k].text))

\* C26: when a parent is split into more than one window, every returned
\* child holds at least one word position that the window before it does
\* not hold: no child lies wholly inside its predecessor.
C26_EveryChildAddsWords ==
    \A i \in 2..Len(children) :
        children[i].metadata.parent_id = children[i - 1].metadata.parent_id =>
            Range(Split(children[i].text)) \ Range(Split(children[i - 1].text)) # {}

-----------------------------------------------------------------------------
(* Calls of the query rewriter.                                            *)

\* Pieces of query text: a word no term occurs in, a financial term with a
\* capital letter, a legal term, a word that holds a term ("rent"), and a
\* term without a space after it.
Fragments ==
    { <<"h", "i", " ">>,
      <<"R", "e", "v", "e", "n", "u", "e", " ">>,
      <<"t", "e", "r", "m", "i", "n", "a", "t", "e", " ">>,
      <<"c", "u", "r", "r", "e", "n", "t", " ">>,
      <<"t", "a", "x">> }

\* The queries put together from at most n fragments.
RECURSIVE QueriesOf(_)
QueriesOf(n) ==
    IF n = 0 THEN {<<>>}
    ELSE QueriesOf(n - 1) \cup { q \o f : q \in QueriesOf(n - 1), f \in Fragments }

QueryPool == QueriesOf(MaxFragments)

\* Another query, rewritten between the calls on the followed one.
OtherQuery ==
    <<"w", "h", "a", "t", " ", "a", "r", "e", " ", "t", "h", "e", " ", "l",
          "a", "t", "e", " ", "p", "a", "y", "m", "e", "n", "t", " ", "p",
          "e", "n", "a", "l", "t", "i", "e", "s", "?">>

\* A caller evaluates rewrite_query(query): the call reads the two dicts and
\* changes neither.
CallRewriteQuery(query) ==
    /\ Len(calls) < MaxCalls
    /\ calls' = Append(calls,
                       [fn       |-> "rewrite_query",
                        query    |-> query,
                        expanded |-> RewriteQuery(query, FINANCIAL_EXPANSIONS,
                                                  LEGAL_EXPANSIONS)])
    /\ UNCHANGED <<FINANCIAL_EXPANSIONS, LEGAL_EXPANSIONS, rw_query>>
    /\ UNCHANGED <<rvars, cvars, kvars, gvars>>

\* Variant: the merged dict is built in place in FINANCIAL_EXPANSIONS.
CallRewriteForLoggingInPlace(query) ==
    /\ Len(calls) < MaxCalls
    /\ LET r == RewriteForLogging(query, FINANCIAL_EXPANSIONS, LEGAL_EXPANSIONS)
       IN  calls' = Append(calls,
                           [fn       |-> "rewrite_for_logging",
                            query    |-> query,
                            expanded |-> r.expanded,
                            matched  |-> r.matched])
    /\ FINANCIAL_EXPANSIONS' = MergeDicts(FINANCIAL_EXPANSIONS, LEGAL_EXPANSIONS)
    /\ UNCHANGED <<LEGAL_EXPANSIONS, rw_query>>
    /\ UNCHANGED <<rvars, cvars, kvars, gvars>>

\* A caller evaluates rewrite_for_logging(query).
CallRewriteForLogging(query) ==
    /\ Len(calls) < MaxCalls
    /\ LET r == RewriteForLogging(query, FINANCIAL_EXPANSIONS, LEGAL_EXPANSIONS)
       IN  calls' = Append(calls,
                           [fn       |-> "rewrite_for_logging",
                            query    |-> query,
                            expanded |-> r.expanded,
                            matched  |-> r.matched])
    /\ UNCHANGED <<FINANCIAL_EXPANSIONS, LEGAL_EXPANSIONS, rw_query>>
    /\ UNCHANGED <<rvars, cvars, kvars, gvars>>

RewriteInit ==
    /\ FINANCIAL_EXPANSIONS = FinancialTable
    /\ LEGAL_EXPANSIONS = LegalTable
    /\ rw_query \in QueryPool
    /\ calls = <<>>
    /\ RetrieveIdle
    /\ ChunkIdle
    /\ ConcIdle
    /\ GatewayIdle

RewriteNext ==
    \/ \E query \in {rw_query, OtherQuery} : CallRewriteQuery(query)
    \/ \E query \in {rw_query, OtherQuery} : CallRewriteForLogging(query)

RewriteSpec == RewriteInit /\ [][RewriteNext]_vars

-----------------------------------------------------------------------------
(* Properties of the query rewriter, checked under RewriteSpec.            *)

\* The characters of the term stand next to each other in the text.
Occurs(term, text) ==
    \E i \in 0..(Len(text) - Len(term)) :
        \A k \in 1..Len(term) : text[i + k] = term[k]

\* The items of the mapping whose term occurs in the query, letter case
\* aside, in mapping order: the financial terms first, then the legal
\* ones, each group in its written order.
OccurringItems(query) ==
    LET folded == [i \in 1..Len(query) |-> LowerChar(query[i])]
    IN  SelectSeq(FinancialTable \o LegalTable, LAMBDA e : Occurs(e.term, folded))

\* The text is the query, one newline, and the phrases of the items with one
\* space between neighbours.
IsExpansionWith(text, query, items) ==
    /\ Len(text) = Len(query) + 2 * Len(items)
    /\ SubSeq(text, 1, Len(query)) = query
    /\ text[Len(query) + 1] = "\n"
    /\ \A i \in 1..Len(items) : text[Len(query) + 2 * i] = items[i].expansion
    /\ \A i \in 1..(Len(items) - 1) : text[Len(query) + 2 * i + 1] = " "

CallsOf(fn) == { i \in 1..Len(calls) : calls[i].fn = fn }

\* C16: for a query in which at least one domain term occurs (letter case
\* aside), rewrite_query returns the query, one newline, and the phrases of
\* exactly the occurring terms, joined by single spaces, in mapping order,
\* one phrase per term however often the term occurs.
C16_ExpansionOfMatchedTerms ==
    \A i \in CallsOf("rewrite_query") :
        OccurringItems(calls[i].query) # <<>> =>
            IsExpansionWith(calls[i].expanded, calls[i].query,
                            OccurringItems(calls[i].query))

\* "terminate Revenue " was rewritten: the phrase of "revenue" first, then
\* that of "terminate".
C16_Witness ==
    \E i \in CallsOf("rewrite_query") :
        /\ calls[i].query = <<"t", "e", "r", "m", "i", "n", "a", "t", "e", " ">>
                               \o <<"R", "e", "v", "e", "n", "u", "e", " ">>
        /\ calls[i].expanded = calls[i].query \o
              <<"\n",
                "revenue total revenues consolidated statements of operations", " ",
                "termination clause notice period right to terminate">>

\* C17: for a query in which no domain term occurs, the rewritten text is
\* the query itself and rewrite_for_logging reports no matched term.
C17_NoTermLeavesQueryUnchanged ==
    \A i \in 1..Len(calls) :
        OccurringItems(calls[i].query) = <<>> =>
            /\ calls[i].expanded = calls[i].query
            /\ calls[i].fn = "rewrite_for_logging" => calls[i].matched = <<>>

\* Both functions were called on "hi hi ".
C17_Witness ==
    /\ rw_query = <<"h", "i", " ">> \o <<"h", "i", " ">>
    /\ \E i \in CallsOf("rewrite_query") : calls[i].query = rw_query
    /\ \E i \in CallsOf("rewrite_for_logging") :
          calls[i].query = rw_query /\ calls[i].matched = <<>>

\* C18: rewrite_query and rewrite_for_logging return the same text for the
\* same query, and the matched list of rewrite_for_logging is exactly the
\* keys that occur in the lower-cased query, in mapping order, one key for
\* each appended phrase.
C18_FormsAgree ==
    /\ \A i \in CallsOf("rewrite_query") : \A j \in CallsOf("rewrite_for_logging") :
          calls[i].query = calls[j].query => calls[i].expanded = calls[j].expanded
    /\ \A j \in CallsOf("rewrite_for_logging") :
          LET items == OccurringItems(calls[j].query)
          IN  /\ calls[j].matched = [k \in 1..Len(items) |-> items[k].term]
              /\ Len(calls[j].expanded) = Len(calls[j].query) + 2 * Len(calls[j].matched)

\* Both functions were called on "current tax": "tax" and the "rent" inside
\* "current" matched, in mapping order.
C18_Witness ==
    /\ rw_query = <<"c", "u", "r", "r", "e", "n", "t", " ">>
                     \o <<"t", "a", "x">>
    /\ \E i \in CallsOf("rewrite_query") : calls[i].query = rw_query
    /\ \E j \in CallsOf("rewrite_for_logging") :
          /\ calls[j].query = rw_query
          /\ calls[j].matched = <<<<"t", "a", "x">>, <<"r", "e", "n", "t">>>>

\* C19: any two calls of the same function on the same query return the
\* same text and the same matched list, whatever calls lie between them,
\* and no call changes the two dicts.
C19_DeterministicAndPure ==
    /\ \A i, j \in 1..Len(calls) :
          (calls[i].fn = calls[j].fn /\ calls[i].query = calls[j].query) =>
              /\ calls[i].expanded = calls[j].expanded
              /\ calls[i].fn = "rewrite_for_logging" =>
                    calls[i].matched = calls[j].matched
    /\ FINANCIAL_EXPANSIONS = FinancialTable
    /\ LEGAL_EXPANSIONS = LegalTable

\* rewrite_for_logging ran on a query with a matched term, then on another
\* query, then on the first query again.
C19_Witness ==
    /\ Len(calls) = 3
    /\ \A i \in 1..3 : calls[i].fn = "rewrite_for_logging"
    /\ calls[1].query = rw_query
    /\ calls[1].matched # <<>>
    /\ calls[2].query = OtherQuery
    /\ calls[2].query # rw_query
    /\ calls[3].query = rw_query

-----------------------------------------------------------------------------
(* Concurrent calls of Retriever.retrieve on one Retriever, over a         *)
(* collection nobody writes.  Every call has its own frame: the locals     *)
(* results, seen_parents and expanded and the position in the loop of      *)
(* _expand_to_parents, which is followed pass by pass.                     *)

\* The chunks of the collection: two children of one parent, each followed
\* by a chunk without a parent, then a child of another parent, and so on
\* again.
ConcChunks ==
    << [text |-> "ta", metadata |-> [document_id |-> "d1", parent_id |-> "p1",
                                     parent_text |-> ParentTextOf("p1")]],
       [text |-> "tb", metadata |-> [document_id |-> "d1", parent_id |-> NoneVal,
                                     parent_text |-> NoneVal]],
       [text |-> "tb", metadata |-> [document_id |-> "d1", parent_id |-> "p1",
                                     parent_text |-> ParentTextOf("p1")]],
       [text |-> "ta", metadata |-> [document_id |-> "d1", parent_id |-> NoneVal,
                                     parent_text |-> NoneVal]],
       [text |-> "ta", metadata |-> [document_id |-> "d2", parent_id |-> "p2",
                                     parent_text |-> ParentTextOf("p2")]] >>

ConcIndex ==
    PointsOf([i \in 1..MaxConcIndex |-> ConcChunks[((i - 1) % Len(ConcChunks)) + 1]], 1)

CallIds == 1..MaxRetrievers

\* The top_k the shared Retriever is constructed with.
ConcTopK == 2

\* The frame of a call that has not started.
NoFrame == [pc |-> "idle", results |-> <<>>, i |-> 0, seen_parents |-> {},
            expanded |-> <<>>, ret |-> NoOutcome]

\* Variant: seen_parents is one set kept on the Retriever and read by every
\* call.
SeenParentsShared(c) == UNION { rcalls[d].seen_parents : d \in CallIds }

\* seen_parents = set() is a local of _expand_to_parents.
SeenParentsOf(c) == rcalls[c].seen_parents

\* retrieve is entered: rewrite_for_logging and embed_query work on the
\* call's own arguments.
ConcStart(c) ==
    /\ rcalls[c].pc = "idle"
    /\ rcalls' = [rcalls EXCEPT ![c].pc = "search"]
    /\ UNCHANGED <<rvars, cvars, qvars, gvars>>

\* results = self.store.search(...), then
\*   if not results: return []
\*   if self.use_parent_context: return self._expand_to_parents(results)
\*   return results
ConcSearch(c) ==
    /\ rcalls[c].pc = "search"
    /\ \E ranking \in Rankings(index, top_k, NoneVal) :
          LET rs == SearchResult(index, ranking)
          IN  rcalls' = [rcalls EXCEPT ![c] =
                IF rs = <<>>
                THEN [@ EXCEPT !.pc = "done", !.results = rs,
                               !.ret = [kind |-> "return", value |-> <<>>]]
                ELSE IF use_parent_context
                THEN [@ EXCEPT !.pc = "expand", !.results = rs, !.i = 1,
                               !.seen_parents = {}, !.expanded = <<>>]
                ELSE [@ EXCEPT !.pc = "done", !.results = rs,
                               !.ret = [kind |-> "return", value |-> rs]]]
    /\ UNCHANGED <<rvars, cvars, qvars, gvars>>

\* One pass of `for r in results` in _expand_to_parents.
ConcExpandStep(c) ==
    /\ rcalls[c].pc = "expand"
    /\ rcalls[c].i <= Len(rcalls[c].results)
    /\ LET r == rcalls[c].results[rcalls[c].i]
       IN  rcalls' = [rcalls EXCEPT ![c] =
                IF IsDuplicate(r.parent_id, SeenParentsOf(c))
                THEN [@ EXCEPT !.i = @ + 1]
                ELSE [@ EXCEPT !.i = @ + 1,
                               !.seen_parents = SeenAfter(r.parent_id, @),
                               !.expanded = AppendExpanded(@, r)]]
    /\ UNCHANGED <<rvars, cvars, qvars, gvars>>

\* return expanded
ConcExpandReturn(c) ==
    /\ rcalls[c].pc = "expand"
    /\ rcalls[c].i > Len(rcalls[c].results)
    /\ rcalls' = [rcalls EXCEPT ![c].pc = "done",
                                ![c].ret = [kind |-> "return",
                                            value |-> rcalls[c].expanded]]
    /\ UNCHANGED <<rvars, cvars, qvars, gvars>>

\* One Retriever over the written collection; no call has started.
ConcInit ==
    /\ index = ConcIndex
    /\ nextId = MaxConcIndex + 1
    /\ top_k = ConcTopK
    /\ use_parent_context \in BOOLEAN
    /\ pc = "idle"
    /\ caller = NoneVal
    /\ arg_doc = NoneVal
    /\ results = <<>>
    /\ ret = NoOutcome
    /\ answer = NoAnswer
    /\ prompts = 0
    /\ llm_calls = 0
    /\ rcalls = [c \in CallIds |-> NoFrame]
    /\ ChunkIdle
    /\ RewriteIdle
    /\ GatewayIdle

ConcNext ==
    \E c \in CallIds :
        \/ ConcStart(c)
        \/ ConcSearch(c)
        \/ ConcExpandStep(c)
        \/ ConcExpandReturn(c)

ConcSpec == ConcInit /\ [][ConcNext]_vars

\* C21: retrieve calls running at the same time over a collection nobody
\* writes return, under every interleaving, what each would return if run
\* alone on the results its search handed back.
C21_ConcurrentCallsIndependent ==
    \A c \in DOMAIN rcalls :
        rcalls[c].pc = "done" =>
            rcalls[c].ret = RetrieveOutcome(rcalls[c].results, use_parent_context)

\* One call has returned with a result dropped as a duplicate while another
\* call, which has already seen a parent, is still inside the loop of
\* _expand_to_parents.
C21_Witness ==
    /\ use_parent_context
    /\ \E c, d \in DOMAIN rcalls :
          /\ c # d
          /\ rcalls[c].pc = "done"
          /\ Len(rcalls[c].ret.value) < Len(rcalls[c].results)
          /\ rcalls[d].pc = "expand"
          /\ rcalls[d].seen_parents # {}
          /\ rcalls[d].i <= Len(rcalls[d].results)

\* The results a call's loop has gone through, and what it has put
\* together from them.
Processed(c) ==
    { k \in 1..Len(rcalls[c].results) : k < rcalls[c].i }

WithoutParent(rs) == { k \in 1..Len(rs) : ~Truthy(rs[k].parent_id) }

\* C27: with expansion on, every search result without a parent_id appears
\* in the returned list: such results are never dropped as duplicates, one
\* entry stands for each of them, and they add nothing to the seen parents.
C27_ParentlessAlwaysReturned ==
    \A c \in DOMAIN rcalls :
        (use_parent_context /\ rcalls[c].pc \in {"expand", "done"}
                            /\ rcalls[c].results # <<>>) =>
            /\ \A p \in rcalls[c].seen_parents : Truthy(p)
            /\ Cardinality(WithoutParent(rcalls[c].expanded))
                  = Cardinality(Processed(c) \cap WithoutParent(rcalls[c].results))
            /\ rcalls[c].pc = "done" =>
                  /\ rcalls[c].ret.kind = "return"
                  /\ Cardinality(WithoutParent(rcalls[c].ret.value))
                        = Cardinality(WithoutParent(rcalls[c].results))

\* A call whose search handed back two results without a parent returned
\* both of them.
C27_Witness ==
    \E c \in DOMAIN rcalls :
        /\ use_parent_context
        /\ rcalls[c].pc = "done"
        /\ Len(rcalls[c].results) = 2
        /\ WithoutParent(rcalls[c].results) = {1, 2}
        /\ Len(rcalls[c].ret.value) = 2
        /\ rcalls[c].seen_parents = {}

-----------------------------------------------------------------------------
(* The chat-completion gateway: chat_completions (routes/chat.py) calling  *)
(* send_chat_request (services/vllm_client.py).  A request runs without    *)
(* interruption from one await to the next; the awaits are the POST to the *)
(* backend and the reading of the response body.                           *)

RequestIds == 1..MaxRequests

\* settings.MAX_TOKENS, scaled down.
MAX_TOKENS == 2

\* request.max_tokens: at the limit and over it.
MaxTokensArgs == {MAX_TOKENS, MAX_TOKENS + 1}

\* response.status values the backend answers with.
Statuses == {200, 404, 500}

\* The JSON bodies a 200 answer carries: a complete one, one without
\* choices, one whose usage is null, one with a negative token count, one
\* whose message content is null and one whose choice has no message.
GoodUsage == [is_dict |-> TRUE, prompt_tokens |-> 1, completion_tokens |-> 1]
GoodChoice == [index |-> 0, has_message |-> TRUE, role |-> "assistant", content |-> "hi"]
NoData == [usage |-> [is_dict |-> FALSE, prompt_tokens |-> 0, completion_tokens |-> 0],
           choices |-> <<>>, parsed |-> FALSE]
DataPool ==
    { [usage |-> GoodUsage, choices |-> <<GoodChoice>>, parsed |-> TRUE],
      [usage |-> GoodUsage, choices |-> <<>>, parsed |-> TRUE],
      [usage |-> [GoodUsage EXCEPT !.is_dict = FALSE], choices |-> <<GoodChoice>>,
       parsed |-> TRUE],
      [usage |-> [GoodUsage EXCEPT !.prompt_tokens = -1], choices |-> <<GoodChoice>>,
       parsed |-> TRUE],
      [usage |-> GoodUsage, choices |-> <<[GoodChoice EXCEPT !.content = NoneVal]>>,
       parsed |-> TRUE],
      [usage |-> GoodUsage, choices |-> <<[GoodChoice EXCEPT !.has_message = FALSE]>>,
       parsed |-> TRUE] }

\* What a call ends with: a returned value or a raised exception.
Returns(data) == [kind |-> "return", exc |-> NoneVal, status_code |-> 0, value |-> data]
Raises(exc, code) == [kind |-> "raise", exc |-> exc, status_code |-> code, value |-> NoData]
Pending == [kind |-> "none", exc |-> NoneVal, status_code |-> 0, value |-> NoData]

\* What the backend did for a request: how the POST ended, the status of
\* its answer and how the reading of the body ended.
NoBackend == [post |-> "none", status |-> 0, body |-> "none"]

NoRequest ==
    [pc |-> "new", max_tokens |-> 0, backend |-> NoBackend, sent |-> Pending,
     result |-> Pending, gauge_incs |-> 0, gauge_decs |-> 0,
     success_incs |-> 0, error_incs |-> 0]

\* Exceptions the POST can end with: asyncio.TimeoutError,
\* aiohttp.ClientConnectorError, any other Exception, and the cancellation
\* of the request's task.
PostExceptions == {"TimeoutError", "ClientConnectorError", "Exception", "CancelledError"}

\* Exceptions the reading of the body can end with: the total timeout
\* expiring, any other Exception (a broken payload, a body that is not
\* JSON), and cancellation.
BodyExceptions == {"TimeoutError", "Exception", "CancelledError"}

\* Variant: the clause for HTTPException is missing, so the generic clause
\* takes it.
HandleNoReraise(e) ==
    IF e.exc = "TimeoutError" THEN Raises("HTTPException", 504)
    ELSE IF e.exc = "ClientConnectorError" THEN Raises("HTTPException", 503)
    ELSE IF e.exc = "CancelledError" THEN e
    ELSE Raises("HTTPException", 500)

\* The except clauses of send_chat_request, in their order.  CancelledError
\* is no Exception and passes through.
Handle(e) ==
    IF e.exc = "TimeoutError" THEN Raises("HTTPException", 504)
    ELSE IF e.exc = "ClientConnectorError" THEN Raises("HTTPException", 503)
    ELSE IF e.exc = "HTTPException" THEN e
    ELSE IF e.exc = "CancelledError" THEN e
    ELSE Raises("HTTPException", 500)

\* chat_completions after send_chat_request returned data: the metrics
\* calculation, the Prometheus updates and the building of the response.
\* Gives the number of increments of the success counter and how the try
\* block ends.
AfterBackend(data) ==
    IF ~data.usage.is_dict
    THEN [success |-> 0, outcome |-> Raises("AttributeError", 0)]
    ELSE IF data.usage.prompt_tokens < 0 \/ data.usage.completion_tokens < 0
    THEN [success |-> 1, outcome |-> Raises("ValueError", 0)]
    ELSE IF \E i \in 1..Len(data.choices) : ~data.choices[i].has_message
    THEN [success |-> 1, outcome |-> Raises("KeyError", 0)]
    ELSE IF \E i \in 1..Len(data.choices) : data.choices[i].content = NoneVal
    THEN [success |-> 1, outcome |-> Raises("ValidationError", 0)]
    ELSE [success |-> 1, outcome |-> Returns(data)]

\* except Exception: the error counter is incremented for everything but a
\* cancellation.
ErrorIncs(outcome) ==
    IF outcome.kind = "raise" /\ outcome.exc # "CancelledError" THEN 1 ELSE 0

\* Variant: the gauge is decremented at the end of the try block only.
GaugeAfterOnReturn(gauge, outcome) ==
    IF outcome.kind = "return" THEN gauge - 1 ELSE gauge

\* finally: ACTIVE_REQUESTS.dec()
GaugeAfter(gauge, outcome) == gauge - 1

\* The end of chat_completions for request r: the except clause and the
\* finally clause.  frame and gauge are the request's frame and the gauge as
\* the step has left them so far.
Complete(r, frame, gauge, success, outcome) ==
    /\ greqs' = [greqs EXCEPT ![r] =
                    [frame EXCEPT !.pc = "done",
                                  !.result = outcome,
                                  !.success_incs = @ + success,
                                  !.error_incs = @ + ErrorIncs(outcome),
                                  !.gauge_decs = @ + (gauge - GaugeAfter(gauge, outcome))]]
    /\ CHAT_REQUESTS_TOTAL' =
           [success |-> CHAT_REQUESTS_TOTAL.success + success,
            error |-> CHAT_REQUESTS_TOTAL.error + ErrorIncs(outcome)]
    /\ ACTIVE_REQUESTS' = GaugeAfter(gauge, outcome)

\* A request arrives: the gauge is incremented and max_tokens is checked;
\* a request within the limit goes on to the POST.
GwStart(r) ==
    /\ greqs[r].pc = "new"
    /\ \E mt \in MaxTokensArgs :
         LET frame == [greqs[r] EXCEPT !.max_tokens = mt, !.gauge_incs = @ + 1]
             gauge == ACTIVE_REQUESTS + 1
         IN  IF mt > MAX_TOKENS
             THEN Complete(r, frame, gauge, 0, Raises("HTTPException", 400))
             ELSE /\ greqs' = [greqs EXCEPT ![r] = [frame EXCEPT !.pc = "post"]]
                  /\ ACTIVE_REQUESTS' = gauge
                  /\ UNCHANGED CHAT_REQUESTS_TOTAL
    /\ UNCHANGED <<rvars, cvars, qvars, kvars>>

\* session.post answers with a response.
GwPostResponds(r) ==
    /\ greqs[r].pc = "post"
    /\ \E s \in Statuses :
         greqs' = [greqs EXCEPT ![r].pc = "body",
                                ![r].backend = [post |-> "response", status |-> s,
                                                body |-> "none"]]
    /\ UNCHANGED <<ACTIVE_REQUESTS, CHAT_REQUESTS_TOTAL>>
    /\ UNCHANGED <<rvars, cvars, qvars, kvars>>

\* session.post raises.
GwPostRaises(r) ==
    /\ greqs[r].pc = "post"
    /\ \E x \in PostExceptions :
         LET sent == Handle(Raises(x, 0))
             frame == [greqs[r] EXCEPT !.backend = [post |-> x, status |-> 0,
                                                    body |-> "none"],
                                       !.sent = sent]
         IN  Complete(r, frame, ACTIVE_REQUESTS, 0, sent)
    /\ UNCHANGED <<rvars, cvars, qvars, kvars>>

\* The body is read: response.text() of an answer other than 200, after
\* which HTTPException(status) is raised, or response.json() of a 200
\* answer, whose value is returned.
GwBodyRead(r) ==
    /\ greqs[r].pc = "body"
    /\ LET s == greqs[r].backend.status
       IN  IF s # 200
           THEN LET sent == Handle(Raises("HTTPException", s))
                    frame == [greqs[r] EXCEPT !.backend.body = "read", !.sent = sent]
                IN  Complete(r, frame, ACTIVE_REQUESTS, 0, sent)
           ELSE \E data \in DataPool :
                  LET sent == Returns(data)
                      frame == [greqs[r] EXCEPT !.backend.body = "read", !.sent = sent]
                      after == AfterBackend(data)
                  IN  Complete(r, frame, ACTIVE_REQUESTS, after.success, after.outcome)
    /\ UNCHANGED <<rvars, cvars, qvars, kvars>>

\* The reading of the body raises.
GwBodyRaises(r) ==
    /\ greqs[r].pc = "body"
    /\ \E x \in BodyExceptions :
         LET sent == Handle(Raises(x, 0))
             frame == [greqs[r] EXCEPT !.backend.body = x, !.sent = sent]
         IN  Complete(r, frame, ACTIVE_REQUESTS, 0, sent)
    /\ UNCHANGED <<rvars, cvars, qvars, kvars>>

GatewayInit ==
    /\ greqs = [r \in RequestIds |-> NoRequest]
    /\ ACTIVE_REQUESTS = 0
    /\ CHAT_REQUESTS_TOTAL = [success |-> 0, error |-> 0]
    /\ RetrieveIdle
    /\ ChunkIdle
    /\ RewriteIdle
    /\ ConcIdle

GatewayNext ==
    \E r \in RequestIds :
        \/ GwStart(r)
        \/ GwPostResponds(r)
        \/ GwPostRaises(r)
        \/ GwBodyRead(r)
        \/ GwBodyRaises(r)

GatewaySpec == GatewayInit /\ [][GatewayNext]_vars

-----------------------------------------------------------------------------
(* Properties of the gateway.                                              *)

\* The requests for which send_chat_request has ended, not counting a
\* cancelled one.
Sent == { r \in DOMAIN greqs : /\ greqs[r].sent.kind # "none"
                               /\ greqs[r].sent.exc # "CancelledError" }

\* C23 as stated: every answer with status 200 ends in the parsed body and
\* every answer with another status S in an HTTP error with status S; a
\* timeout gives 504, a failed connection 503, any other exception 500.
C23_EveryResponseMapped ==
    \A r \in Sent :
        LET b == greqs[r].backend
            s == greqs[r].sent
        IN  /\ (b.post = "response" /\ b.status = 200) =>
                   (s.kind = "return" /\ s.value.parsed)
            /\ (b.post = "response" /\ b.status # 200) =>
                   s = Raises("HTTPException", b.status)
            /\ (b.post = "TimeoutError") => s = Raises("HTTPException", 504)
            /\ (b.post = "ClientConnectorError") => s = Raises("HTTPException", 503)
            /\ (b.post = "Exception") => s = Raises("HTTPException", 500)

\* C23, amended: an answer with status 200 whose body is read and parsed
\* ends in the parsed body; an answer with another status S whose body is
\* read ends in an HTTP error with status S, never turned into 500; a
\* timeout, also one while the body is read, gives 504; a failed connection
\* gives 503; any other exception, also one raised while the body is read
\* or parsed, gives 500.
C23_EveryOutcomeMapped ==
    \A r \in Sent :
        LET b == greqs[r].backend
            s == greqs[r].sent
        IN  /\ (b.post = "response" /\ b.status = 200 /\ b.body = "read") =>
                   (s.kind = "return" /\ s.value.parsed)
            /\ (b.post = "response" /\ b.status # 200 /\ b.body = "read") =>
                   s = Raises("HTTPException", b.status)
            /\ (b.post = "TimeoutError" \/ b.body = "TimeoutError") =>
                   s = Raises("HTTPException", 504)
            /\ (b.post = "ClientConnectorError") => s = Raises("HTTPException", 503)
            /\ (b.post = "Exception" \/ b.body = "Exception") =>
                   s = Raises("HTTPException", 500)

\* One request got an answer with a status other than 200 that went out
\* with that status, another got a 200 answer whose body could not be read.
C23_Witness ==
    \E r, q \in DOMAIN greqs :
        /\ greqs[r].backend = [post |-> "response", status |-> 404, body |-> "read"]
        /\ greqs[r].sent = Raises("HTTPException", 404)
        /\ greqs[q].backend = [post |-> "response", status |-> 200, body |-> "Exception"]
        /\ greqs[q].sent = Raises("HTTPException", 500)

\* The requests between their arrival and their end.
InFlight == { r \in DOMAIN greqs : greqs[r].pc \in {"post", "body"} }

\* C29: every request increments the gauge of active requests once when it
\* arrives and decrements it once when it ends, whether it ends with a
\* response, with the rejection of its max_tokens or with a failure of the
\* backend; under every interleaving the gauge is the number of requests in
\* flight, so it is never negative and is back at its first value when no
\* request is in flight.
C29_GaugeCountsInFlight ==
    /\ ACTIVE_REQUESTS = Cardinality(InFlight)
    /\ ACTIVE_REQUESTS >= 0
    /\ \A r \in DOMAIN greqs :
          /\ greqs[r].pc = "new" => (greqs[r].gauge_incs = 0 /\ greqs[r].gauge_decs = 0)
          /\ greqs[r].pc \in {"post", "body"} =>
                (greqs[r].gauge_incs = 1 /\ greqs[r].gauge_decs = 0)
          /\ greqs[r].pc = "done" => (greqs[r].gauge_incs = 1 /\ greqs[r].gauge_decs = 1)

\* One request has ended with a failure of the backend while another is
\* still waiting for the body of its answer.
C29_Witness ==
    \E r, q \in DOMAIN greqs :
        /\ greqs[r].pc = "body"
        /\ greqs[q].pc = "done"
        /\ greqs[q].result = Raises("HTTPException", 503)
        /\ ACTIVE_REQUESTS = 1

\* C30: every request increments the request counter exactly once: under
\* status success when a response is returned, under status error when an
\* exception is raised; never under both and never under neither.  (A
\* request whose task was cancelled is left aside.)
C30_CountedExactlyOnce ==
    \A r \in DOMAIN greqs :
        (greqs[r].pc = "done" /\ greqs[r].result.exc # "CancelledError") =>
            /\ greqs[r].success_incs + greqs[r].error_incs = 1
            /\ greqs[r].result.kind = "return" => greqs[r].success_incs = 1
            /\ greqs[r].result.kind = "raise" => greqs[r].error_incs = 1

====
